---- MODULE Spec2Model ----
(***************************************************************************)
(* Model of the supakeys passkey edge function (the serve() handler that   *)
(* `supakeys init` writes out) together with the SQL migration it runs     *)
(* against: passkey_challenges, passkey_credentials, passkey_rate_limits,  *)
(* passkey_audit_log and the check_passkey_rate_limit function.            *)
(*                                                                         *)
(* Every request is served by an independent invocation of serve(); the    *)
(* invocations share nothing but the database.  A request slot p walks     *)
(* through its handler one store call at a time (pc[p]), so two requests   *)
(* interleave exactly where two edge-function invocations can.             *)
(***************************************************************************)
EXTENDS Integers, FiniteSets, Sequences, Bags, TLC

\* ---------------------------------------------------------------- bounds
NumProcs == 2
MaxRequests == 3
MaxFlood == 7
MaxEmailFlood == 11
MaxTicks == 1
MaxCounter == 2
MaxEmailLen == 5
MaxNameLen == 2

\* ------------------------------------------------------ program constants
CHALLENGE_TTL_MINUTES == 5
IpMaxAttempts == 5
EmailMaxAttempts == 10
\* the clock is counted in half minutes, so that date_trunc('minute', ...)
\* has something to truncate
UnitsPerMinute == 2

RATE_LIMITS ==
  [ip |-> [maxAttempts |-> IpMaxAttempts, windowMinutes |-> 1],
   email |-> [maxAttempts |-> EmailMaxAttempts, windowMinutes |-> 1]]

\* ----------------------------------------------------------- input sets
Procs == 1..NumProcs
CredIds == {"c1", "c2"}
Origins == {"app", "evil"}
RpIds == {"rp", "other"}

\* the database as the tests seed it: an account that owns a passkey, and
\* ceremonies that have been begun for it
SeedUser == [id |-> 1, email |-> "alice"]
SeedCredential ==
  [id |-> "c1", user_id |-> 1, webauthn_user_id |-> 0, counter |-> 0,
   authenticator_name |-> "none"]
SeedChallenges ==
  {[id |-> 1, challenge |-> 1, email |-> "bob", type |-> "registration",
    expires_at |-> CHALLENGE_TTL_MINUTES * UnitsPerMinute,
    webauthn_user_id |-> 1],
   [id |-> 2, challenge |-> 2, email |-> "alice", type |-> "authentication",
    expires_at |-> CHALLENGE_TTL_MINUTES * UnitsPerMinute,
    webauthn_user_id |-> 0],
   [id |-> 3, challenge |-> 3, email |-> "alice", type |-> "authentication",
    expires_at |-> CHALLENGE_TTL_MINUTES * UnitsPerMinute,
    webauthn_user_id |-> 0]}

\* ------------------------------------------------------------ null rows
NoChallenge ==
  [id |-> 0, challenge |-> 0, email |-> "none", type |-> "none",
   expires_at |-> 0, webauthn_user_id |-> 0]
NoCredential ==
  [id |-> "none", user_id |-> 0, webauthn_user_id |-> 0, counter |-> 0,
   authenticator_name |-> "none"]
NoResponse ==
  [id |-> "none", challenge |-> 0, origin |-> "none", rpId |-> "none",
   sigOK |-> FALSE, counter |-> 0]
NoRequest ==
  [endpoint |-> "none", ip |-> "none", email |-> "none", challengeId |-> 0,
   origin |-> "none", rpId |-> "none", token |-> 0, userId |-> 0,
   credentialId |-> "none", authenticatorName |-> "none"]
NoLocals ==
  [handle |-> 0, creds |-> {}, chal |-> NoChallenge, late |-> FALSE,
   clock |-> 0, resp |-> NoResponse, cred |-> NoCredential,
   verdict |-> "none", userId |-> 0, newCounter |-> 0]
NoResult ==
  [code |-> "none", challengeId |-> 0, nonce |-> 0, creds |-> {},
   hasList |-> FALSE, token |-> "none", email |-> "none", passkey |-> "none",
   message |-> "none"]

\* ------------------------------------------------ values in the browser
\* what a caller of the client library can pass for an option: a string
\* (its characters) or something that is not a string
Chars == {"a", "@", ".", " "}
Strings(alphabet, n) == UNION {[1..k -> alphabet] : k \in 0..n}
Str(chars) == [type |-> "string", chars |-> chars]
Undefined == [type |-> "undefined", chars |-> << >>]
NotStrings ==
  {Undefined, [type |-> "null", chars |-> << >>],
   [type |-> "number", chars |-> << >>]}
EmailValues == NotStrings \cup {Str(c) : c \in Strings(Chars, MaxEmailLen)}
NameValues == NotStrings \cup {Str(c) : c \in Strings({"a", " "}, MaxNameLen)}

\* EdgeFunctionResponse as the client reads it: success, whether data is
\* there, error.code, and data.verified / data.tokenHash / data.email
NoReply ==
  [success |-> FALSE, data |-> FALSE, error |-> "none", verified |-> FALSE,
   tokenHash |-> FALSE, email |-> FALSE]
NoClient ==
  [pc |-> "idle", method |-> "none", email |-> Undefined,
   credentialId |-> Undefined, authenticatorName |-> Undefined,
   trace |-> << >>, success |-> FALSE, code |-> "none", session |-> FALSE]

VARIABLES
  now,          \* the wall clock, NOW() and Date.now()
  ticks,        \* how often the clock has advanced
  nreq,         \* requests received so far
  nextId,       \* next passkey_challenges.id / options.challenge to hand out
  nextHandle,   \* next generateWebAuthnUserId() value
  nextUser,     \* next auth.users id
  rateLimits,   \* passkey_rate_limits: window key -> attempt_count
  challenges,   \* passkey_challenges rows
  credentials,  \* passkey_credentials rows
  users,        \* auth.users rows
  auditLog,     \* passkey_audit_log, a bag of events
  pc,           \* where each invocation stands in its handler
  req,          \* the request each invocation serves
  loc,          \* the handler's local variables
  result,       \* the ApiResponse each invocation returned
  observed,     \* per window key: how many requests passed / were limited
  finished,     \* challenge ids for which a finish-call has returned
  auditUp,      \* whether a call of log_passkey_audit_event gets through
  client        \* the PasskeyAuth call in the browser and how far it got

vars ==
  <<now, ticks, nreq, nextId, nextHandle, nextUser, rateLimits, challenges,
    credentials, users, auditLog, pc, req, loc, result, observed, finished,
    auditUp, client>>

\* ------------------------------------------------------------- responses
success(r) == [r EXCEPT !.code = "OK"]

\* return { success: false, error: { code, message } }
error(code, message) ==
  [NoResult EXCEPT !.code = code, !.message = message]

\* ------------------------------------------------------------ rate limit
\* date_trunc('minute', NOW())
date_trunc_minute(t) == (t \div UnitsPerMinute) * UnitsPerMinute

\* (variant) one row per endpoint and window, whoever asks
RateKeyAnyIdentifier(identifier, identifier_type, endpoint, t) ==
  [identifier |-> "any", identifier_type |-> identifier_type,
   endpoint |-> endpoint, window_start |-> date_trunc_minute(t)]

RateKey(identifier, identifier_type, endpoint, t) ==
  [identifier |-> identifier, identifier_type |-> identifier_type,
   endpoint |-> endpoint, window_start |-> date_trunc_minute(t)]

\* (variant) ON CONFLICT DO NOTHING
UpsertAttemptDoNothing(table, k) ==
  IF k \in DOMAIN table THEN table ELSE table @@ (k :> 1)

\* INSERT ... ON CONFLICT DO UPDATE SET attempt_count = attempt_count + 1
UpsertAttempt(table, k) ==
  IF k \in DOMAIN table
    THEN [table EXCEPT ![k] = @ + 1]
    ELSE table @@ (k :> 1)

\* (variant) the attempt that reaches the ceiling is already refused
RateLimitExceededAtCeiling(v_current_count, p_max_attempts) ==
  v_current_count >= p_max_attempts

\* RETURN v_current_count > p_max_attempts
RateLimitExceeded(v_current_count, p_max_attempts) ==
  v_current_count > p_max_attempts

\* the whole of check_passkey_rate_limit: the table afterwards and the
\* boolean it returns
check_passkey_rate_limit(table, identifier, identifier_type, endpoint, max, t) ==
  LET k == RateKey(identifier, identifier_type, endpoint, t)
      after == UpsertAttempt(table, k)
  IN  [table |-> after, error |-> FALSE,
       data |-> RateLimitExceeded(after[k], max)]

\* (variant) only a failed call is taken for a block
RateLimitedOnErrorOnly(ipBlocked) == ipBlocked.error

\* if (ipBlocked.error || ipBlocked.data)
RateLimited(ipBlocked) == ipBlocked.error \/ ipBlocked.data

\* bookkeeping of what the handlers answered, per window key
Observe(obs, k, blocked) ==
  LET old == IF k \in DOMAIN obs THEN obs[k] ELSE [passed |-> 0, limited |-> 0]
      new == IF blocked
               THEN [old EXCEPT !.limited = @ + 1]
               ELSE [old EXCEPT !.passed = @ + 1]
  IN  IF k \in DOMAIN obs THEN [obs EXCEPT ![k] = new] ELSE obs @@ (k :> new)

\* a begin-call is booked under its client address and, where it carries
\* one, under its email
ObserveRequest(obs, r, t, blocked) ==
  LET byIp == Observe(obs, RateKey(r.ip, "ip", r.endpoint, t), blocked)
  IN  IF r.email = "none" THEN byIp
      ELSE Observe(byIp, RateKey(r.email, "email", r.endpoint, t), blocked)

\* ------------------------------------------------------------- audit log
AuditEvent(event_type, email, credential_id, ip) ==
  [event_type |-> event_type, email |-> email,
   credential_id |-> credential_id, ip_address |-> ip]

\* log_passkey_audit_event: one INSERT; a call that does not get through
\* leaves the log as it is
log_passkey_audit_event(log, e) ==
  IF auditUp THEN log (+) SetToBag({e}) ELSE log

\* (variant) a call that does not get through throws, and the outer catch
\* answers
AfterAuditThrows(written, response) ==
  IF written THEN response ELSE error("UNKNOWN_ERROR", "Internal server error")

\* await supabaseAdmin.rpc('log_passkey_audit_event', ...); result = ...
\* what the call resolved to is not looked at
AfterAudit(written, response) == response

\* -------------------------------------------------------------- requests
\* serve() is entered with a request; the switch on the endpoint picks the
\* handler
Receive(p, r) ==
  /\ pc[p] \in {"idle", "done"}
  /\ req' = [req EXCEPT ![p] = r]
  /\ loc' = [loc EXCEPT ![p] = NoLocals]
  /\ result' = [result EXCEPT ![p] = NoResult]
  /\ pc' = [pc EXCEPT ![p] = r.endpoint]
  /\ nreq' = nreq + 1
  /\ UNCHANGED <<client, auditUp,
                 now, ticks, nextId, nextHandle, nextUser, rateLimits,
                 challenges, credentials, users, auditLog, observed,
                 finished>>

\* the handler breaks out of the switch and the response is returned; of
\* the locals only the record of the verification outlives the call
Respond(p, r, verdict) ==
  /\ result' = [result EXCEPT ![p] = r]
  /\ pc' = [pc EXCEPT ![p] = "done"]
  /\ loc' = [loc EXCEPT ![p] = [NoLocals EXCEPT !.late = loc[p].late,
                                                !.verdict = verdict]]

Init ==
  /\ now = 0
  /\ ticks = 0
  /\ nreq = 0
  /\ nextUser = 2
  /\ rateLimits = << >>
  /\ users = {SeedUser}
  /\ credentials = {SeedCredential}
  /\ challenges = SeedChallenges
  /\ nextId = 4
  /\ nextHandle = 2
  /\ auditLog = EmptyBag
  /\ pc = [p \in Procs |-> "idle"]
  /\ req = [p \in Procs |-> NoRequest]
  /\ loc = [p \in Procs |-> NoLocals]
  /\ result = [p \in Procs |-> NoResult]
  /\ observed = << >>
  /\ finished = {}
  /\ auditUp = TRUE
  /\ client = NoClient

\* the clock moves on
Advance(d) ==
  /\ ticks < MaxTicks
  /\ now' = now + d
  /\ ticks' = ticks + 1
  /\ UNCHANGED <<client, auditUp,
                 nreq, nextId, nextHandle, nextUser, rateLimits, challenges,
                 credentials, users, auditLog, pc, req, loc, result,
                 observed, finished>>

\* (variant) the lifetime is not added
ExpiresAtNow(t) == t

\* new Date(Date.now() + CHALLENGE_TTL_MINUTES * 60 * 1000)
ExpiresAt(t) == t + CHALLENGE_TTL_MINUTES * UnitsPerMinute

\* more than a challenge's lifetime passes
TickLifetime == Advance(CHALLENGE_TTL_MINUTES * UnitsPerMinute + 1)

\* ---------------------------------------------------------------------
\* case '/register/start'
\* ---------------------------------------------------------------------

\* the IP limiter is consulted; a blocked (or failed) check answers
\* RATE_LIMITED and ends the request
RegisterStartRateLimit(p) ==
  /\ pc[p] = "/register/start"
  /\ LET ipBlocked == check_passkey_rate_limit(rateLimits, req[p].ip, "ip",
                        "/register/start", RATE_LIMITS.ip.maxAttempts, now)
     IN  /\ rateLimits' = ipBlocked.table
         /\ observed' = ObserveRequest(observed, req[p], now,
                                        RateLimited(ipBlocked))
         /\ IF RateLimited(ipBlocked)
              THEN Respond(p, error("RATE_LIMITED", "Too many requests"), "none")
              ELSE /\ pc' = [pc EXCEPT ![p] = "rs_select"]
                   /\ UNCHANGED <<result, loc>>
  /\ UNCHANGED <<client, auditUp,
                 now, ticks, nreq, nextId, nextHandle, nextUser, challenges,
                 credentials, users, auditLog, req, finished>>

\* generateWebAuthnUserId(), then the credentials that carry that handle
RegisterStartSelect(p) ==
  /\ pc[p] = "rs_select"
  /\ LET webauthnUserId == nextHandle
         existingUser == {c \in credentials :
                            c.webauthn_user_id = webauthnUserId}
         excludeCredentials == {c.id : c \in existingUser}
     IN  loc' = [loc EXCEPT ![p].handle = webauthnUserId,
                            ![p].creds = excludeCredentials]
  /\ nextHandle' = nextHandle + 1
  /\ pc' = [pc EXCEPT ![p] = "rs_insert"]
  /\ UNCHANGED <<client, auditUp,
                 now, ticks, nreq, nextId, nextUser, rateLimits, challenges,
                 credentials, users, auditLog, req, result, observed,
                 finished>>

\* generateRegistrationOptions, the challenge row, the audit event and
\* the response
RegisterStartInsert(p) ==
  /\ pc[p] = "rs_insert"
  /\ LET expiresAt == ExpiresAt(now)
         challenge == [id |-> nextId, challenge |-> nextId,
                       email |-> req[p].email, type |-> "registration",
                       expires_at |-> expiresAt,
                       webauthn_user_id |-> loc[p].handle]
     IN  /\ challenges' = challenges \cup {challenge}
         /\ auditLog' = log_passkey_audit_event(auditLog,
               AuditEvent("registration_started", req[p].email, "none",
                          req[p].ip))
         /\ Respond(p, AfterAudit(auditUp, success([NoResult EXCEPT
                                  !.challengeId = challenge.id,
                                  !.nonce = challenge.challenge,
                                  !.creds = loc[p].creds,
                                  !.hasList = TRUE])), "none")
  /\ nextId' = nextId + 1
  /\ UNCHANGED <<client, auditUp,
                 now, ticks, nreq, nextHandle, nextUser, rateLimits,
                 credentials, users, req, observed, finished>>

\* ---------------------------------------------------------------------
\* case '/login/start'
\* ---------------------------------------------------------------------

LoginStartRateLimit(p) ==
  /\ pc[p] = "/login/start"
  /\ LET ipBlocked == check_passkey_rate_limit(rateLimits, req[p].ip, "ip",
                        "/login/start", RATE_LIMITS.ip.maxAttempts, now)
     IN  /\ rateLimits' = ipBlocked.table
         /\ observed' = ObserveRequest(observed, req[p], now,
                                        RateLimited(ipBlocked))
         /\ IF RateLimited(ipBlocked)
              THEN Respond(p, error("RATE_LIMITED", "Too many requests"), "none")
              ELSE /\ pc' = [pc EXCEPT ![p] =
                               IF req[p].email = "none" THEN "ls_insert"
                                                        ELSE "ls_users"]
                   /\ UNCHANGED <<result, loc>>
  /\ UNCHANGED <<client, auditUp,
                 now, ticks, nreq, nextId, nextHandle, nextUser, challenges,
                 credentials, users, auditLog, req, finished>>

\* (variant) an email without an account gets an answer of its own
LoginStartUsersTelling(p) ==
  /\ pc[p] = "ls_users"
  /\ LET found == {u \in users : u.email = req[p].email}
     IN  IF found = {}
           THEN Respond(p, error("USER_NOT_FOUND", "No account for this email"), "none")
           ELSE /\ loc' = [loc EXCEPT ![p].userId =
                             (CHOOSE u \in found : TRUE).id]
                /\ pc' = [pc EXCEPT ![p] = "ls_creds"]
                /\ result' = result
  /\ UNCHANGED <<client, auditUp,
                 now, ticks, nreq, nextId, nextHandle, nextUser, rateLimits,
                 challenges, credentials, users, auditLog, req, observed,
                 finished>>

\* auth.admin.listUsers() and the search for the email; no account ends
\* the call
LoginStartUsers(p) ==
  /\ pc[p] = "ls_users"
  /\ LET found == {u \in users : u.email = req[p].email}
     IN  IF found = {}
           THEN Respond(p, error("CREDENTIAL_NOT_FOUND", "No passkey found for this email"), "none")
           ELSE /\ loc' = [loc EXCEPT ![p].userId =
                             (CHOOSE u \in found : TRUE).id]
                /\ pc' = [pc EXCEPT ![p] = "ls_creds"]
                /\ result' = result
  /\ UNCHANGED <<client, auditUp,
                 now, ticks, nreq, nextId, nextHandle, nextUser, rateLimits,
                 challenges, credentials, users, auditLog, req, observed,
                 finished>>

\* (variant) an account without credentials is let through
LoginStartCredsAnyway(p) ==
  /\ pc[p] = "ls_creds"
  /\ LET creds == {c \in credentials : c.user_id = loc[p].userId}
     IN  /\ loc' = [loc EXCEPT ![p].creds = {c.id : c \in creds}]
         /\ pc' = [pc EXCEPT ![p] = "ls_insert"]
         /\ result' = result
  /\ UNCHANGED <<client, auditUp,
                 now, ticks, nreq, nextId, nextHandle, nextUser,
                 rateLimits, challenges, credentials, users, auditLog, req,
                 observed, finished>>

\* (variant) the allow-list is every credential in the table
LoginStartCredsOfAll(p) ==
  /\ pc[p] = "ls_creds"
  /\ IF {c \in credentials : c.user_id = loc[p].userId} = {}
       THEN Respond(p, error("CREDENTIAL_NOT_FOUND", "No passkey found for this email"), "none")
       ELSE /\ loc' = [loc EXCEPT ![p].creds = {c.id : c \in credentials}]
            /\ pc' = [pc EXCEPT ![p] = "ls_insert"]
            /\ result' = result
  /\ UNCHANGED <<client, auditUp,
                 now, ticks, nreq, nextId, nextHandle, nextUser,
                 rateLimits, challenges, credentials, users, auditLog, req,
                 observed, finished>>

\* the account's credentials become the allow-list
LoginStartCreds(p) ==
  /\ pc[p] = "ls_creds"
  /\ LET creds == {c \in credentials : c.user_id = loc[p].userId}
     IN  IF creds = {}
           THEN Respond(p, error("CREDENTIAL_NOT_FOUND", "No passkey found for this email"), "none")
           ELSE /\ loc' = [loc EXCEPT ![p].creds = {c.id : c \in creds}]
                /\ pc' = [pc EXCEPT ![p] = "ls_insert"]
                /\ result' = result
  /\ UNCHANGED <<client, auditUp,
                 now, ticks, nreq, nextId, nextHandle, nextUser, rateLimits,
                 challenges, credentials, users, auditLog, req, observed,
                 finished>>

\* generateAuthenticationOptions, the challenge row, the audit event and
\* the response
LoginStartInsert(p) ==
  /\ pc[p] = "ls_insert"
  /\ LET expiresAt == ExpiresAt(now)
         challenge == [id |-> nextId, challenge |-> nextId,
                       email |-> req[p].email, type |-> "authentication",
                       expires_at |-> expiresAt, webauthn_user_id |-> 0]
     IN  /\ challenges' = challenges \cup {challenge}
         /\ auditLog' = log_passkey_audit_event(auditLog,
               AuditEvent("authentication_started", req[p].email, "none",
                          req[p].ip))
         /\ Respond(p, AfterAudit(auditUp, success([NoResult EXCEPT
                                  !.challengeId = challenge.id,
                                  !.nonce = challenge.challenge,
                                  !.creds = loc[p].creds,
                                  !.hasList = (req[p].email # "none")])),
                    "none")
  /\ nextId' = nextId + 1
  /\ UNCHANGED <<client, auditUp,
                 now, ticks, nreq, nextHandle, nextUser, rateLimits,
                 credentials, users, req, observed, finished>>

\* ---------------------------------------------------------------------
\* the WebAuthn verifier (@simplewebauthn/server), by its call contract
\* ---------------------------------------------------------------------

\* what an authenticator response can claim: the nonce the client was sent
\* or another one, any origin and relying party, a signature that verifies
\* or does not
Responses(nonce) ==
  [id : CredIds, challenge : {0, nonce}, origin : Origins, rpId : RpIds,
   sigOK : BOOLEAN, counter : 0..MaxCounter]

verifyRegistrationResponse(response, expectedChallenge, expectedOrigin, expectedRPID) ==
  /\ response.challenge = expectedChallenge
  /\ response.origin = expectedOrigin
  /\ response.rpId = expectedRPID
  /\ response.sigOK

verifyAuthenticationResponse(response, expectedChallenge, expectedOrigin, expectedRPID, credential) ==
  /\ response.challenge = expectedChallenge
  /\ response.origin = expectedOrigin
  /\ response.rpId = expectedRPID
  /\ response.sigOK
  /\ response.counter > credential.counter

\* the checks of a ceremony, stated against the stored nonce, the origin the
\* request was observed with and the relying-party id of the request
PassesChecks(response, challenge, request) ==
  /\ response.challenge = challenge.challenge
  /\ response.origin = request.origin
  /\ response.rpId = request.rpId
  /\ response.sigOK

\* what became of the response: "stale" when its counter does not exceed
\* the stored one, "failed" when another check fails, "passed" otherwise
Verdict(stale, passed) ==
  IF stale THEN "stale" ELSE IF passed THEN "passed" ELSE "failed"

\* ---------------------------------------------------------------------
\* case '/register/finish'
\* ---------------------------------------------------------------------

\* (variant) the read does not filter by type
SelectChallengeAnyType(table, challengeId, type) ==
  LET rows == {c \in table : c.id = challengeId}
  IN  IF Cardinality(rows) = 1 THEN CHOOSE c \in rows : TRUE
                               ELSE NoChallenge

\* .select('*').eq('id', challengeId).eq('type', type).single()
SelectChallenge(table, challengeId, type) ==
  LET rows == {c \in table : c.id = challengeId /\ c.type = type}
  IN  IF Cardinality(rows) = 1 THEN CHOOSE c \in rows : TRUE
                               ELSE NoChallenge

\* (variant) the delete carries the type filter of the registration read
DeleteRegistrationChallenge(table, challengeId) ==
  {c \in table : ~(c.id = challengeId /\ c.type = "registration")}

\* (variant) the delete is built but never sent
DeleteChallengeNotSent(table, challengeId) == table

\* .delete().eq('id', challengeId)
DeleteChallenge(table, challengeId) ==
  {c \in table : c.id # challengeId}

\* the registration challenge is read
RegisterFinishSelect(p) ==
  /\ pc[p] = "/register/finish"
  /\ LET challenge == SelectChallenge(challenges, req[p].challengeId,
                                      "registration")
     IN  loc' = [loc EXCEPT ![p].chal = challenge,
                            ![p].late = (req[p].challengeId \in finished)]
  /\ pc' = [pc EXCEPT ![p] = "rf_delete"]
  /\ UNCHANGED <<client, auditUp,
                 now, ticks, nreq, nextId, nextHandle, nextUser, rateLimits,
                 challenges, credentials, users, auditLog, req, result,
                 observed, finished>>

\* the row is deleted whatever the read returned; no row read means
\* CHALLENGE_MISMATCH
RegisterFinishDelete(p) ==
  /\ pc[p] = "rf_delete"
  /\ challenges' = DeleteChallenge(challenges, req[p].challengeId)
  /\ IF loc[p].chal = NoChallenge
       THEN /\ Respond(p, error("CHALLENGE_MISMATCH", "Invalid or expired challenge"), "none")
            /\ finished' = finished \cup {req[p].challengeId}
       ELSE /\ pc' = [pc EXCEPT ![p] = "rf_verify"]
            /\ UNCHANGED <<result, loc, finished>>
  /\ UNCHANGED <<client, auditUp,
                 now, ticks, nreq, nextId, nextHandle, nextUser, rateLimits,
                 credentials, users, auditLog, req, observed>>

\* (variant) the origin the response itself names is what is expected
VerifyRegistrationOwnOrigin(p, authResponse) ==
  verifyRegistrationResponse(authResponse, loc[p].chal.challenge,
                             authResponse.origin, req[p].rpId)

\* verifyRegistrationResponse({response, expectedChallenge, expectedOrigin,
\* expectedRPID})
VerifyRegistration(p, authResponse) ==
  verifyRegistrationResponse(authResponse, loc[p].chal.challenge,
                             req[p].origin, req[p].rpId)

\* the expiry test and verifyRegistrationResponse
RegisterFinishVerify(p) ==
  /\ pc[p] = "rf_verify"
  /\ LET challenge == loc[p].chal
     IN  IF challenge.expires_at < now
           THEN /\ auditLog' = log_passkey_audit_event(auditLog,
                      AuditEvent("challenge_expired", challenge.email,
                                 "none", req[p].ip))
                /\ Respond(p, AfterAudit(auditUp,
                                          error("CHALLENGE_EXPIRED", "Challenge has expired")), "none")
                /\ finished' = finished \cup {req[p].challengeId}
           ELSE \E authResponse \in Responses(challenge.challenge) :
                  LET verdict == Verdict(FALSE,
                                   PassesChecks(authResponse, challenge,
                                                req[p]))
                  IN  IF VerifyRegistration(p, authResponse)
                        THEN /\ loc' = [loc EXCEPT ![p].clock = now,
                                          ![p].resp = authResponse,
                                          ![p].verdict = verdict]
                             /\ pc' = [pc EXCEPT ![p] = "rf_users"]
                             /\ UNCHANGED <<auditLog, result, finished>>
                        ELSE /\ auditLog' =
                                  log_passkey_audit_event(auditLog,
                                    AuditEvent("registration_failed",
                                      challenge.email, "none", req[p].ip))
                             /\ Respond(p, AfterAudit(auditUp,
                                          error("VERIFICATION_FAILED", "Registration verification failed")),
                                        verdict)
                             /\ finished' =
                                  finished \cup {req[p].challengeId}
  /\ UNCHANGED <<client, auditUp,
                 now, ticks, nreq, nextId, nextHandle, nextUser, rateLimits,
                 challenges, credentials, users, req, observed>>

\* auth.admin.listUsers() and the search for challenge.email
RegisterFinishListUsers(p) ==
  /\ pc[p] = "rf_users"
  /\ LET found == {u \in users : u.email = loc[p].chal.email}
     IN  IF found # {}
           THEN /\ loc' = [loc EXCEPT ![p].userId =
                             (CHOOSE u \in found : TRUE).id]
                /\ pc' = [pc EXCEPT ![p] = "rf_insert"]
           ELSE /\ loc' = loc
                /\ pc' = [pc EXCEPT ![p] = "rf_create"]
  /\ UNCHANGED <<client, auditUp,
                 now, ticks, nreq, nextId, nextHandle, nextUser, rateLimits,
                 challenges, credentials, users, auditLog, req, result,
                 observed, finished>>

\* auth.admin.createUser; an email that is taken by now yields no user and
\* newUser.user!.id throws into the catch block
RegisterFinishCreateUser(p) ==
  /\ pc[p] = "rf_create"
  /\ IF \E u \in users : u.email = loc[p].chal.email
       THEN /\ auditLog' = log_passkey_audit_event(auditLog,
                  AuditEvent("registration_failed", loc[p].chal.email,
                             "none", req[p].ip))
            /\ Respond(p, AfterAudit(auditUp,
                                      error("VERIFICATION_FAILED", "Registration verification failed")),
                       loc[p].verdict)
            /\ finished' = finished \cup {req[p].challengeId}
            /\ UNCHANGED <<users, nextUser>>
       ELSE /\ users' = users \cup
                  {[id |-> nextUser, email |-> loc[p].chal.email]}
            /\ nextUser' = nextUser + 1
            /\ loc' = [loc EXCEPT ![p].userId = nextUser]
            /\ pc' = [pc EXCEPT ![p] = "rf_insert"]
            /\ UNCHANGED <<auditLog, result, finished>>
  /\ UNCHANGED <<client, auditUp,
                 now, ticks, nreq, nextId, nextHandle, rateLimits,
                 challenges, credentials, req, observed>>

\* (variant) a row with the same id is replaced
InsertCredentialUpsert(table, row) ==
  {c \in table : c.id # row.id} \cup {row}

\* .insert({...}).select().single(): the primary key refuses a second row
\* with the same id and then no row comes back
InsertCredential(table, row) ==
  IF \E c \in table : c.id = row.id THEN table ELSE table \cup {row}

\* the credential row, generateLink, the audit event and the response
RegisterFinishInsert(p) ==
  /\ pc[p] = "rf_insert"
  /\ LET challenge == loc[p].chal
         row == [id |-> loc[p].resp.id, user_id |-> loc[p].userId,
                 webauthn_user_id |-> challenge.webauthn_user_id,
                 counter |-> loc[p].resp.counter,
                 authenticator_name |-> "none"]
         insertedCred == IF \E c \in credentials : c.id = row.id
                           THEN NoCredential ELSE row
     IN  /\ credentials' = InsertCredential(credentials, row)
         /\ auditLog' = log_passkey_audit_event(auditLog,
               AuditEvent("registration_completed", challenge.email,
                          row.id, req[p].ip))
         /\ Respond(p, AfterAudit(auditUp, success([NoResult EXCEPT
                                  !.token = challenge.email,
                                  !.passkey = insertedCred.id])),
                    loc[p].verdict)
  /\ finished' = finished \cup {req[p].challengeId}
  /\ UNCHANGED <<client, auditUp,
                 now, ticks, nreq, nextId, nextHandle, nextUser, rateLimits,
                 challenges, users, req, observed>>

\* ---------------------------------------------------------------------
\* case '/login/finish'
\* ---------------------------------------------------------------------

\* the authentication challenge is read
LoginFinishSelect(p) ==
  /\ pc[p] = "/login/finish"
  /\ LET challenge == SelectChallenge(challenges, req[p].challengeId,
                                      "authentication")
     IN  loc' = [loc EXCEPT ![p].chal = challenge,
                            ![p].late = (req[p].challengeId \in finished)]
  /\ pc' = [pc EXCEPT ![p] = "lf_delete"]
  /\ UNCHANGED <<client, auditUp,
                 now, ticks, nreq, nextId, nextHandle, nextUser, rateLimits,
                 challenges, credentials, users, auditLog, req, result,
                 observed, finished>>

\* the row is deleted whatever the read returned; no row read means
\* CHALLENGE_MISMATCH
LoginFinishDelete(p) ==
  /\ pc[p] = "lf_delete"
  /\ challenges' = DeleteChallenge(challenges, req[p].challengeId)
  /\ IF loc[p].chal = NoChallenge
       THEN /\ Respond(p, error("CHALLENGE_MISMATCH", "Invalid or expired challenge"), "none")
            /\ finished' = finished \cup {req[p].challengeId}
       ELSE /\ pc' = [pc EXCEPT ![p] = "lf_verify"]
            /\ UNCHANGED <<result, loc, finished>>
  /\ UNCHANGED <<client, auditUp,
                 now, ticks, nreq, nextId, nextHandle, nextUser, rateLimits,
                 credentials, users, auditLog, req, observed>>

\* .select('*').eq('id', credentialId).single()
SelectCredential(table, credentialId) ==
  LET rows == {c \in table : c.id = credentialId}
  IN  IF Cardinality(rows) = 1 THEN CHOOSE c \in rows : TRUE
                               ELSE NoCredential

\* (variant) the origin the response itself names is what is expected
VerifyAuthenticationOwnOrigin(p, authResponse, credential) ==
  verifyAuthenticationResponse(authResponse, loc[p].chal.challenge,
                               authResponse.origin, req[p].rpId, credential)

\* verifyAuthenticationResponse({response, expectedChallenge,
\* expectedOrigin, expectedRPID, credential: {id, publicKey, counter}})
VerifyAuthentication(p, authResponse, credential) ==
  verifyAuthenticationResponse(authResponse, loc[p].chal.challenge,
                               req[p].origin, req[p].rpId, credential)

\* the expiry test, then the credential the response names is read
LoginFinishCredential(p) ==
  /\ pc[p] = "lf_verify"
  /\ LET challenge == loc[p].chal
     IN  IF challenge.expires_at < now
           THEN /\ Respond(p, error("CHALLENGE_EXPIRED", "Challenge has expired"), "none")
                /\ finished' = finished \cup {req[p].challengeId}
           ELSE \E credentialId \in CredIds :
                  LET credential == SelectCredential(credentials,
                                                     credentialId)
                  IN  IF credential = NoCredential
                        THEN /\ Respond(p, error("CREDENTIAL_NOT_FOUND", "Credential not found"),
                                        "none")
                             /\ finished' =
                                  finished \cup {req[p].challengeId}
                        ELSE /\ loc' = [loc EXCEPT ![p].clock = now,
                                                   ![p].cred = credential]
                             /\ pc' = [pc EXCEPT ![p] = "lf_check"]
                             /\ UNCHANGED <<result, finished>>
  /\ UNCHANGED <<client, auditUp,
                 now, ticks, nreq, nextId, nextHandle, nextUser, rateLimits,
                 challenges, credentials, users, auditLog, req, observed>>

\* verifyAuthenticationResponse against the credential row read before
LoginFinishVerify(p) ==
  /\ pc[p] = "lf_check"
  /\ \E authResponse \in Responses(loc[p].chal.challenge) :
       LET credential == loc[p].cred
           verdict == Verdict(authResponse.counter <= credential.counter,
                              PassesChecks(authResponse, loc[p].chal,
                                           req[p]))
       IN  /\ authResponse.id = credential.id
           /\ IF VerifyAuthentication(p, authResponse, credential)
                THEN /\ loc' = [loc EXCEPT
                                  ![p].resp = authResponse,
                                  ![p].verdict = verdict,
                                  ![p].newCounter = authResponse.counter]
                     /\ pc' = [pc EXCEPT ![p] = "lf_update"]
                     /\ UNCHANGED <<auditLog, result, finished>>
                ELSE /\ auditLog' =
                          log_passkey_audit_event(auditLog,
                            AuditEvent("authentication_failed", "none",
                                       credential.id, req[p].ip))
                     /\ Respond(p, AfterAudit(auditUp,
                                    error("VERIFICATION_FAILED", "Authentication verification failed")), verdict)
                     /\ finished' = finished \cup {req[p].challengeId}
  /\ UNCHANGED <<client, auditUp,
                 now, ticks, nreq, nextId, nextHandle, nextUser, rateLimits,
                 challenges, credentials, users, req, observed>>

\* .update({counter, last_used_at}).eq('id', credentialId)
UpdateCounter(table, credentialId, newCounter) ==
  {IF c.id = credentialId THEN [c EXCEPT !.counter = newCounter] ELSE c :
     c \in table}

LoginFinishUpdate(p) ==
  /\ pc[p] = "lf_update"
  /\ credentials' = UpdateCounter(credentials, loc[p].resp.id,
                                  loc[p].newCounter)
  /\ pc' = [pc EXCEPT ![p] = "lf_link"]
  /\ UNCHANGED <<client, auditUp,
                 now, ticks, nreq, nextId, nextHandle, nextUser, rateLimits,
                 challenges, users, auditLog, req, loc, result, observed,
                 finished>>

\* getUserById, generateLink, the audit event and the response
LoginFinishLink(p) ==
  /\ pc[p] = "lf_link"
  /\ LET owner == {u \in users : u.id = loc[p].cred.user_id}
         userEmail == IF owner # {} THEN (CHOOSE u \in owner : TRUE).email
                                    ELSE loc[p].chal.email
     IN  /\ auditLog' = log_passkey_audit_event(auditLog,
               AuditEvent("authentication_completed", "none",
                          loc[p].resp.id, req[p].ip))
         /\ Respond(p, AfterAudit(auditUp,
                                   success([NoResult EXCEPT
                                              !.token = userEmail,
                                              !.email = userEmail])),
                    loc[p].verdict)
  /\ finished' = finished \cup {req[p].challengeId}
  /\ UNCHANGED <<client, auditUp,
                 now, ticks, nreq, nextId, nextHandle, nextUser, rateLimits,
                 challenges, credentials, users, req, observed>>

\* ---------------------------------------------------------------------
\* cases '/passkeys/list', '/passkeys/remove', '/passkeys/update'
\* ---------------------------------------------------------------------

PasskeyEndpoints == {"/passkeys/list", "/passkeys/remove", "/passkeys/update"}

NoUser == [id |-> 0, email |-> "none"]

\* userClient.auth.getUser(): the account the bearer token was issued for,
\* if the token is one and the account is there
getUser(table, token) ==
  LET found == {u \in table : u.id = token}
  IN  IF found = {} THEN NoUser ELSE CHOOSE u \in found : TRUE

\* (variant) the account is the one the request body names
PasskeysTrustBody(p) ==
  /\ pc[p] \in PasskeyEndpoints
  /\ LET user == getUser(users, req[p].userId)
     IN  IF user = NoUser
           THEN Respond(p, error("UNAUTHORIZED", "Authentication required"), "none")
           ELSE /\ loc' = [loc EXCEPT ![p].userId = user.id]
                /\ pc' = [pc EXCEPT ![p] =
                            IF pc[p] = "/passkeys/list" THEN "pk_list"
                            ELSE IF pc[p] = "/passkeys/remove"
                                   THEN "pk_remove" ELSE "pk_update"]
                /\ result' = result
  /\ UNCHANGED <<client, auditUp,
                 now, ticks, nreq, nextId, nextHandle, nextUser,
                 rateLimits, challenges, credentials, users, auditLog, req,
                 observed, finished>>

\* the bearer token is validated; without a user the call ends UNAUTHORIZED
PasskeysGetUser(p) ==
  /\ pc[p] \in PasskeyEndpoints
  /\ LET user == getUser(users, req[p].token)
     IN  IF user = NoUser
           THEN Respond(p, error("UNAUTHORIZED", "Authentication required"), "none")
           ELSE /\ loc' = [loc EXCEPT ![p].userId = user.id]
                /\ pc' = [pc EXCEPT ![p] =
                            IF pc[p] = "/passkeys/list" THEN "pk_list"
                            ELSE IF pc[p] = "/passkeys/remove"
                                   THEN "pk_remove" ELSE "pk_update"]
                /\ result' = result
  /\ UNCHANGED <<client, auditUp,
                 now, ticks, nreq, nextId, nextHandle, nextUser,
                 rateLimits, challenges, credentials, users, auditLog, req,
                 observed, finished>>

\* (variant) the select has no user_id filter
PasskeysListAll(p) ==
  /\ pc[p] = "pk_list"
  /\ Respond(p, success([NoResult EXCEPT
                           !.creds = {c.id : c \in credentials},
                           !.hasList = TRUE]), "none")
  /\ UNCHANGED <<client, auditUp,
                 now, ticks, nreq, nextId, nextHandle, nextUser,
                 rateLimits, challenges, credentials, users, auditLog, req,
                 observed, finished>>

\* .select('*').eq('user_id', user.id)
PasskeysList(p) ==
  /\ pc[p] = "pk_list"
  /\ LET creds == {c \in credentials : c.user_id = loc[p].userId}
     IN  Respond(p, success([NoResult EXCEPT !.creds = {c.id : c \in creds},
                                             !.hasList = TRUE]), "none")
  /\ UNCHANGED <<client, auditUp,
                 now, ticks, nreq, nextId, nextHandle, nextUser,
                 rateLimits, challenges, credentials, users, auditLog, req,
                 observed, finished>>

\* (variant) the delete is scoped by the credential id alone
DeleteCredentialById(table, credentialId, userId) ==
  {c \in table : c.id # credentialId}

\* .delete().eq('id', removeCredId).eq('user_id', user.id)
DeleteCredential(table, credentialId, userId) ==
  {c \in table : ~(c.id = credentialId /\ c.user_id = userId)}

\* the delete, the passkey_removed event and the response
PasskeysRemove(p) ==
  /\ pc[p] = "pk_remove"
  /\ credentials' = DeleteCredential(credentials, req[p].credentialId,
                                     loc[p].userId)
  /\ auditLog' = log_passkey_audit_event(auditLog,
        AuditEvent("passkey_removed", "none", req[p].credentialId,
                   req[p].ip))
  /\ Respond(p, AfterAudit(auditUp, success(NoResult)), "none")
  /\ UNCHANGED <<client, auditUp,
                 now, ticks, nreq, nextId, nextHandle, nextUser,
                 rateLimits, challenges, users, req, observed, finished>>

\* .update({authenticator_name}).eq('id', ...).eq('user_id', user.id)
UpdateName(table, credentialId, userId, authenticatorName) ==
  {IF c.id = credentialId /\ c.user_id = userId
     THEN [c EXCEPT !.authenticator_name = authenticatorName] ELSE c :
   c \in table}

\* the update; no row updated means CREDENTIAL_NOT_FOUND, else the
\* passkey_updated event and the response
PasskeysUpdate(p) ==
  /\ pc[p] = "pk_update"
  /\ LET after == UpdateName(credentials, req[p].credentialId,
                             loc[p].userId, req[p].authenticatorName)
         updated == {c \in after : c.id = req[p].credentialId
                                     /\ c.user_id = loc[p].userId}
     IN  /\ credentials' = after
         /\ IF updated = {}
              THEN /\ Respond(p, error("CREDENTIAL_NOT_FOUND", "Passkey not found"), "none")
                   /\ UNCHANGED auditLog
              ELSE /\ auditLog' = log_passkey_audit_event(auditLog,
                         AuditEvent("passkey_updated", "none",
                                    req[p].credentialId, req[p].ip))
                   /\ Respond(p, AfterAudit(auditUp,
                                   success([NoResult EXCEPT !.passkey =
                                              req[p].credentialId])),
                              "none")
  /\ UNCHANGED <<client, auditUp,
                 now, ticks, nreq, nextId, nextHandle, nextUser,
                 rateLimits, challenges, users, req, observed, finished>>

\* ---------------------------------------------------------------------
\* the identity provider and the audit function, from outside
\* ---------------------------------------------------------------------

\* auth.admin.deleteUser: the account goes, and with it its credentials
\* (user_id ... REFERENCES auth.users(id) ON DELETE CASCADE)
DeleteAccount(u) ==
  /\ u \in users
  /\ users' = users \ {u}
  /\ credentials' = {c \in credentials : c.user_id # u.id}
  /\ UNCHANGED <<client, auditUp,
                 now, ticks, nreq, nextId, nextHandle, nextUser,
                 rateLimits, challenges, auditLog, pc, req, loc, result,
                 observed, finished>>

\* the audit function starts or stops failing
AuditFlips ==
  /\ auditUp' = ~auditUp
  /\ UNCHANGED <<client,
                 now, ticks, nreq, nextId, nextHandle, nextUser, rateLimits,
                 challenges, credentials, users, auditLog, pc, req, loc,
                 result, observed, finished>>

\* ---------------------------------------------------------------------
\* store calls that fail: supabase-js resolves with { data: null, error }
\* ---------------------------------------------------------------------

\* check_passkey_rate_limit fails: ipBlocked.error is set
RegisterStartRateLimitFails(p) ==
  /\ pc[p] = "/register/start"
  /\ LET ipBlocked == [table |-> rateLimits, error |-> TRUE, data |-> FALSE]
     IN  IF RateLimited(ipBlocked)
           THEN Respond(p, error("RATE_LIMITED", "Too many requests"), "none")
           ELSE /\ pc' = [pc EXCEPT ![p] = "rs_select"]
                /\ UNCHANGED <<result, loc>>
  /\ UNCHANGED <<client, auditUp,
                 now, ticks, nreq, nextId, nextHandle, nextUser, rateLimits,
                 challenges, credentials, users, auditLog, req, observed,
                 finished>>

\* the challenge insert fails: challenge is null, the audit event is still
\* written, and challenge.id throws into the outer catch
RegisterStartInsertFails(p) ==
  /\ pc[p] = "rs_insert"
  /\ auditLog' = log_passkey_audit_event(auditLog,
        AuditEvent("registration_started", req[p].email, "none", req[p].ip))
  /\ Respond(p, error("UNKNOWN_ERROR", "Internal server error"), "none")
  /\ UNCHANGED <<client, auditUp,
                 now, ticks, nreq, nextId, nextHandle, nextUser, rateLimits,
                 challenges, credentials, users, req, observed, finished>>

\* the challenge select fails: challenge is null and the handler goes on
RegisterFinishSelectFails(p) ==
  /\ pc[p] = "/register/finish"
  /\ loc' = [loc EXCEPT ![p].chal = NoChallenge,
                        ![p].late = (req[p].challengeId \in finished)]
  /\ pc' = [pc EXCEPT ![p] = "rf_delete"]
  /\ UNCHANGED <<client, auditUp,
                 now, ticks, nreq, nextId, nextHandle, nextUser, rateLimits,
                 challenges, credentials, users, auditLog, req, result,
                 observed, finished>>

\* the challenge delete fails: the row stays and the handler goes on
RegisterFinishDeleteFails(p) ==
  /\ pc[p] = "rf_delete"
  /\ IF loc[p].chal = NoChallenge
       THEN /\ Respond(p, error("CHALLENGE_MISMATCH", "Invalid or expired challenge"), "none")
            /\ finished' = finished \cup {req[p].challengeId}
       ELSE /\ pc' = [pc EXCEPT ![p] = "rf_verify"]
            /\ UNCHANGED <<result, loc, finished>>
  /\ UNCHANGED <<client, auditUp,
                 now, ticks, nreq, nextId, nextHandle, nextUser, rateLimits,
                 challenges, credentials, users, auditLog, req, observed>>

\* the credential insert fails: insertedCred is null and the handler goes
\* on to the token and the response
RegisterFinishInsertFails(p) ==
  /\ pc[p] = "rf_insert"
  /\ auditLog' = log_passkey_audit_event(auditLog,
        AuditEvent("registration_completed", loc[p].chal.email,
                   loc[p].resp.id, req[p].ip))
  /\ Respond(p, AfterAudit(auditUp, success([NoResult EXCEPT
                             !.token = loc[p].chal.email,
                             !.passkey = NoCredential.id])),
             loc[p].verdict)
  /\ finished' = finished \cup {req[p].challengeId}
  /\ UNCHANGED <<client, auditUp,
                 now, ticks, nreq, nextId, nextHandle, nextUser, rateLimits,
                 challenges, credentials, users, req, observed>>

\* the counter update fails: nothing looks at what the update resolved to
LoginFinishUpdateFails(p) ==
  /\ pc[p] = "lf_update"
  /\ pc' = [pc EXCEPT ![p] = "lf_link"]
  /\ UNCHANGED <<client, auditUp,
                 now, ticks, nreq, nextId, nextHandle, nextUser, rateLimits,
                 challenges, credentials, users, auditLog, req, loc, result,
                 observed, finished>>

StoreFails(p) ==
  \/ RegisterStartRateLimitFails(p)
  \/ RegisterStartInsertFails(p)
  \/ RegisterFinishSelectFails(p)
  \/ RegisterFinishDeleteFails(p)
  \/ RegisterFinishInsertFails(p)
  \/ LoginFinishUpdateFails(p)

\* ---------------------------------------------------------------------
\* the periodic job
\* ---------------------------------------------------------------------

\* (variant) the job deletes nothing
CleanupNothing(table, t) == table

\* DELETE FROM public.passkey_challenges WHERE expires_at < NOW()
cleanup_expired_passkey_challenges(table, t) ==
  {c \in table : ~ (c.expires_at < t)}

Cleanup ==
  /\ challenges' = cleanup_expired_passkey_challenges(challenges, now)
  /\ UNCHANGED <<client, auditUp,
                 now, ticks, nreq, nextId, nextHandle, nextUser, rateLimits,
                 credentials, users, auditLog, pc, req, loc, result,
                 observed, finished>>

\* time passes for as long as a challenge has not yet expired
ClockRuns ==
  /\ \E c \in challenges : ~ (c.expires_at < now)
  /\ now' = now + CHALLENGE_TTL_MINUTES * UnitsPerMinute + 1
  /\ UNCHANGED <<client, auditUp,
                 ticks, nreq, nextId, nextHandle, nextUser, rateLimits,
                 challenges, credentials, users, auditLog, pc, req, loc,
                 result, observed, finished>>

\* ---------------------------------------------------------------------
\* the client library: PasskeyAuth
\* ---------------------------------------------------------------------

serverVars ==
  <<now, ticks, nreq, nextId, nextHandle, nextUser, rateLimits, challenges,
    credentials, users, auditLog, pc, req, loc, result, observed, finished,
    auditUp>>

\* String.prototype.trim, as far as blanks go
RECURSIVE TrimStart(_)
TrimStart(chars) ==
  IF chars # << >> /\ Head(chars) = " " THEN TrimStart(Tail(chars)) ELSE chars

RECURSIVE TrimEnd(_)
TrimEnd(chars) ==
  IF chars # << >> /\ chars[Len(chars)] = " "
    THEN TrimEnd(SubSeq(chars, 1, Len(chars) - 1))
    ELSE chars

Trim(chars) == TrimEnd(TrimStart(chars))

\* (variant) anything goes
isValidEmailAny(chars) == TRUE

\* EMAIL_REGEX = /^[^\s@]+@[^\s@]+\.[^\s@]+$/
isValidEmail(chars) ==
  \E i, j \in 1..Len(chars) :
    /\ chars[i] = "@"
    /\ chars[j] = "."
    /\ 1 < i
    /\ i + 1 < j
    /\ j < Len(chars)
    /\ \A k \in (1..Len(chars)) \ {i} : chars[k] \notin {" ", "@"}

validateEmail(email) ==
  IF email.type \in {"null", "undefined"}
    THEN [valid |-> FALSE, message |-> "Email is required"]
  ELSE IF email.type # "string"
    THEN [valid |-> FALSE, message |-> "Email must be a string"]
  ELSE IF Trim(email.chars) = << >>
    THEN [valid |-> FALSE, message |-> "Email cannot be empty"]
  ELSE IF ~ isValidEmail(email.chars)
    THEN [valid |-> FALSE, message |-> "Invalid email format"]
  ELSE [valid |-> TRUE, message |-> "none"]

validateCredentialId(credentialId) ==
  IF credentialId.type \in {"null", "undefined"}
    THEN [valid |-> FALSE, message |-> "Credential ID is required"]
  ELSE IF credentialId.type # "string"
    THEN [valid |-> FALSE, message |-> "Credential ID must be a string"]
  ELSE IF Trim(credentialId.chars) = << >>
    THEN [valid |-> FALSE, message |-> "Credential ID cannot be empty"]
  ELSE [valid |-> TRUE, message |-> "none"]

validateAuthenticatorName(name) ==
  IF name.type \in {"null", "undefined"}
    THEN [valid |-> FALSE, message |-> "Authenticator name is required"]
  ELSE IF name.type # "string"
    THEN [valid |-> FALSE, message |-> "Authenticator name must be a string"]
  ELSE IF Trim(name.chars) = << >>
    THEN [valid |-> FALSE, message |-> "Authenticator name cannot be empty"]
  ELSE [valid |-> TRUE, message |-> "none"]

\* mapWebAuthnError: the error's name and whether its message speaks of a
\* timeout or of fetch decide the code
mapWebAuthnError(name, timeout, fetch) ==
  IF name = "NotSupportedError" THEN "NOT_SUPPORTED"
  ELSE IF name = "NotAllowedError"
    THEN IF timeout THEN "TIMEOUT" ELSE "CANCELLED"
  ELSE IF name = "InvalidStateError" THEN "INVALID_STATE"
  ELSE IF name = "SecurityError" THEN "SECURITY_ERROR"
  ELSE IF name = "AbortError" THEN "CANCELLED"
  ELSE IF name = "TypeError" /\ fetch THEN "NETWORK_ERROR"
  ELSE "UNKNOWN_ERROR"

\* what the edge function can answer, and what functions.invoke resolves
\* to: { data, error }
EdgeReplies ==
  {[NoReply EXCEPT !.success = TRUE, !.data = d, !.verified = v,
                   !.tokenHash = t, !.email = t] :
     d \in BOOLEAN, v \in BOOLEAN, t \in BOOLEAN}
  \cup {[NoReply EXCEPT !.error = e] :
         e \in {"none", "RATE_LIMITED", "CREDENTIAL_NOT_FOUND",
                "VERIFICATION_FAILED"}}
Invocations ==
  {[error |-> FALSE, data |-> r] : r \in EdgeReplies}
  \cup {[error |-> TRUE, data |-> NoReply]}

\* callEdgeFunction: a transport error becomes a NETWORK_ERROR response
callEdgeFunction(invoked) ==
  IF invoked.error THEN [NoReply EXCEPT !.error = "NETWORK_ERROR"]
                   ELSE invoked.data

\* what the browser ceremony and verifyOtp came to, in the shape of a
\* reply
Outcome(ok, name) ==
  [NoReply EXCEPT !.success = ok, !.data = ok, !.error = name]

\* the method returns
ClientReturn(ok, code, session, trace) ==
  client' = [client EXCEPT !.pc = "returned", !.success = ok,
                           !.code = code, !.session = session,
                           !.trace = trace]

\* a method of PasskeyAuth is called with its options
ClientCall(method, email, credentialId, authenticatorName) ==
  /\ client.pc = "idle"
  /\ client' = [NoClient EXCEPT !.pc = "validate", !.method = method,
                                !.email = email,
                                !.credentialId = credentialId,
                                !.authenticatorName = authenticatorName]
  /\ UNCHANGED serverVars

\* the caller has the result; the next call can be made
ClientDone ==
  /\ client.pc = "returned"
  /\ client' = NoClient
  /\ UNCHANGED serverVars

\* the validation each method opens with
ClientValidate ==
  /\ client.pc = "validate"
  /\ LET emailValidation == validateEmail(client.email)
         credentialValidation == validateCredentialId(client.credentialId)
         nameValidation == validateAuthenticatorName(client.authenticatorName)
         rejected ==
           CASE client.method = "register" -> ~ emailValidation.valid
             [] client.method = "signIn" ->
                  client.email.type # "undefined" /\ ~ emailValidation.valid
             [] client.method = "removePasskey" -> ~ credentialValidation.valid
             [] client.method = "updatePasskey" ->
                  ~ credentialValidation.valid \/ ~ nameValidation.valid
             [] OTHER -> FALSE
     IN  IF rejected
           THEN ClientReturn(FALSE, "INVALID_INPUT", FALSE, client.trace)
           ELSE client' = [client EXCEPT !.pc =
                             IF client.method \in {"register", "signIn"}
                               THEN "supported" ELSE "manage"]
  /\ UNCHANGED serverVars

\* getUnsupportedReason()
ClientSupported ==
  /\ client.pc = "supported"
  /\ \E unsupportedReason \in BOOLEAN :
       IF unsupportedReason
         THEN ClientReturn(FALSE, "NOT_SUPPORTED", FALSE, client.trace)
         ELSE client' = [client EXCEPT !.pc = "start"]
  /\ UNCHANGED serverVars

StartEndpointOf(method) ==
  IF method = "register" THEN "/register/start" ELSE "/login/start"

FinishEndpointOf(method) ==
  IF method = "register" THEN "/register/finish" ELSE "/login/finish"

\* (variant) only a response that names an error stops the ceremony
StartFailedOnErrorOnly(startResponse) == startResponse.error # "none"

\* if (!startResponse.success || !startResponse.data)
StartFailed(startResponse) ==
  ~ startResponse.success \/ ~ startResponse.data

\* the begin-call of register() and signIn()
ClientStart ==
  /\ client.pc = "start"
  /\ \E invoked \in Invocations :
       LET startResponse == callEdgeFunction(invoked)
           trace == Append(client.trace,
                           [step |-> StartEndpointOf(client.method),
                            reply |-> startResponse])
       IN  IF StartFailed(startResponse)
             THEN ClientReturn(FALSE,
                    IF startResponse.error # "none" THEN startResponse.error
                                                    ELSE "UNKNOWN_ERROR",
                    FALSE, trace)
             ELSE client' = [client EXCEPT !.pc = "browser",
                                           !.trace = trace]
  /\ UNCHANGED serverVars

\* startRegistration / startAuthentication in the browser
ClientBrowser ==
  /\ client.pc = "browser"
  /\ \/ client' = [client EXCEPT !.pc = "finish",
                     !.trace = Append(@, [step |-> "browser",
                                          reply |-> Outcome(TRUE, "none")])]
     \/ \E name \in {"NotAllowedError", "InvalidStateError", "Error"},
           timeout \in BOOLEAN :
          ClientReturn(FALSE, mapWebAuthnError(name, timeout, FALSE), FALSE,
                       Append(client.trace,
                              [step |-> "browser",
                               reply |-> Outcome(FALSE, name)]))
  /\ UNCHANGED serverVars

\* the finish-call; register() returns after it, signIn() goes on to redeem
\* the token
ClientFinish ==
  /\ client.pc = "finish"
  /\ \E invoked \in Invocations :
       LET finishResponse == callEdgeFunction(invoked)
           trace == Append(client.trace,
                           [step |-> FinishEndpointOf(client.method),
                            reply |-> finishResponse])
       IN  IF ~ finishResponse.success
                \/ ~ (finishResponse.data /\ finishResponse.verified)
             THEN ClientReturn(FALSE,
                    IF finishResponse.error # "none"
                      THEN finishResponse.error ELSE "VERIFICATION_FAILED",
                    FALSE, trace)
           ELSE IF client.method = "register"
             THEN ClientReturn(TRUE, "none", FALSE, trace)
           ELSE IF ~ finishResponse.tokenHash \/ ~ finishResponse.email
             THEN ClientReturn(FALSE, "VERIFICATION_FAILED", FALSE, trace)
           ELSE client' = [client EXCEPT !.pc = "redeem", !.trace = trace]
  /\ UNCHANGED serverVars

\* supabase.auth.verifyOtp({ token_hash, type: 'email' })
ClientRedeem ==
  /\ client.pc = "redeem"
  /\ \E sessionError \in BOOLEAN, session \in BOOLEAN :
       LET trace == Append(client.trace,
                           [step |-> "verifyOtp",
                            reply |-> Outcome(~ sessionError /\ session,
                                        IF sessionError THEN "otp" ELSE "none")])
       IN  IF sessionError \/ ~ session
             THEN ClientReturn(FALSE, "VERIFICATION_FAILED", FALSE, trace)
             ELSE ClientReturn(TRUE, "none", TRUE, trace)
  /\ UNCHANGED serverVars

\* removePasskey() and updatePasskey(): one call of the edge function
ClientManage ==
  /\ client.pc = "manage"
  /\ \E invoked \in Invocations :
       LET response == callEdgeFunction(invoked)
           endpoint == IF client.method = "removePasskey"
                         THEN "/passkeys/remove" ELSE "/passkeys/update"
           trace == Append(client.trace,
                           [step |-> endpoint, reply |-> response])
           failed == IF client.method = "removePasskey"
                       THEN ~ response.success
                       ELSE ~ response.success \/ ~ response.data
       IN  IF failed
             THEN ClientReturn(FALSE,
                    IF response.error # "none" THEN response.error
                                               ELSE "UNKNOWN_ERROR",
                    FALSE, trace)
             ELSE ClientReturn(TRUE, "none", FALSE, trace)
  /\ UNCHANGED serverVars

\* ---------------------------------------------------------------------
\* the system
\* ---------------------------------------------------------------------

StartHandlers(p) ==
  \/ RegisterStartRateLimit(p)
  \/ RegisterStartSelect(p)
  \/ RegisterStartInsert(p)
  \/ LoginStartRateLimit(p)
  \/ LoginStartUsers(p)
  \/ LoginStartCreds(p)
  \/ LoginStartInsert(p)

FinishHandlers(p) ==
  \/ RegisterFinishSelect(p)
  \/ RegisterFinishDelete(p)
  \/ RegisterFinishVerify(p)
  \/ RegisterFinishListUsers(p)
  \/ RegisterFinishCreateUser(p)
  \/ RegisterFinishInsert(p)
  \/ LoginFinishSelect(p)
  \/ LoginFinishDelete(p)
  \/ LoginFinishCredential(p)
  \/ LoginFinishVerify(p)
  \/ LoginFinishUpdate(p)
  \/ LoginFinishLink(p)

\* a client names a challenge id it was given, or one never handed out
KnownChallengeIds == 0..(nextId - 1)

StartRequests(ips, emails) ==
  {[NoRequest EXCEPT !.endpoint = "/register/start", !.ip = ip,
                     !.email = email] : ip \in ips, email \in emails}
  \cup
  {[NoRequest EXCEPT !.endpoint = "/login/start", !.ip = ip,
                     !.email = email] :
     ip \in ips, email \in emails \cup {"none"}}

FinishRequests(ips, origins, rpIds) ==
  {[NoRequest EXCEPT !.endpoint = e, !.ip = ip, !.challengeId = c,
                     !.origin = o, !.rpId = r] :
     e \in {"/register/finish", "/login/finish"}, ip \in ips,
     c \in KnownChallengeIds, o \in origins, r \in rpIds}

\* the ceremonies: one client address, one email
CeremonyArrives(p) ==
  /\ nreq < MaxRequests
  /\ \E r \in StartRequests({"ip1"}, {"alice"})
               \cup FinishRequests({"ip1"}, {"app"}, {"rp"}) :
       Receive(p, r)

Next ==
  \/ TickLifetime
  \/ \E p \in Procs : CeremonyArrives(p) \/ StartHandlers(p)
                        \/ FinishHandlers(p)

Spec == Init /\ [][Next]_vars

\* a flood of begin-calls for one email
FloodArrives(p) ==
  /\ nreq < MaxFlood
  /\ \E r \in StartRequests({"ip1"}, {"alice"}) :
       r.email # "none" /\ Receive(p, r)

NextRate ==
  \/ TickLifetime
  \/ \E p \in Procs : FloodArrives(p) \/ StartHandlers(p)

SpecRate == Init /\ [][NextRate]_vars

\* one email asks for registration again and again, from changing addresses
FloodIPs == {"ip1", "ip2", "ip3"}

EmailFloodArrives(p) ==
  /\ nreq < MaxEmailFlood
  /\ \E ip \in FloodIPs :
       Receive(p, [NoRequest EXCEPT !.endpoint = "/register/start",
                                    !.ip = ip, !.email = "alice"])

NextEmail ==
  \/ EmailFloodArrives(1)
  \/ RegisterStartRateLimit(1)
  \/ RegisterStartSelect(1)
  \/ RegisterStartInsert(1)

SpecEmail == Init /\ [][NextEmail]_vars

\* begin-calls from two client addresses, one invocation at a time
WindowIPs == {"ip1", "ip2"}

WindowArrives(p) ==
  /\ nreq < MaxFlood
  /\ \E r \in StartRequests(WindowIPs, {"alice"}) :
       r.email # "none" /\ Receive(p, r)

NextWindows ==
  \/ TickLifetime
  \/ WindowArrives(1)
  \/ StartHandlers(1)

SpecWindows == Init /\ [][NextWindows]_vars

\* two registrations have been begun for an email that has no account yet
SecondRegistration ==
  [id |-> 4, challenge |-> 4, email |-> "bob", type |-> "registration",
   expires_at |-> CHALLENGE_TTL_MINUTES * UnitsPerMinute,
   webauthn_user_id |-> 2]

InitAccounts ==
  /\ now = 0
  /\ ticks = 0
  /\ nreq = 0
  /\ nextUser = 2
  /\ rateLimits = << >>
  /\ users = {SeedUser}
  /\ credentials = {SeedCredential}
  /\ challenges = SeedChallenges \cup {SecondRegistration}
  /\ nextId = 5
  /\ nextHandle = 3
  /\ auditLog = EmptyBag
  /\ pc = [p \in Procs |-> "idle"]
  /\ req = [p \in Procs |-> NoRequest]
  /\ loc = [p \in Procs |-> NoLocals]
  /\ result = [p \in Procs |-> NoResult]
  /\ observed = << >>
  /\ finished = {}
  /\ auditUp = TRUE
  /\ client = NoClient

\* each of the two registrations is finished, no id by two calls at once
AccountsArrive(p) ==
  /\ nreq < MaxRequests
  /\ \E r \in FinishRequests({"ip1"}, {"app"}, {"rp"}) :
       /\ r.endpoint = "/register/finish"
       /\ r.challengeId \in {1, SecondRegistration.id}
       /\ \A q \in Procs \ {p} :
            pc[q] \notin {"idle", "done"} => req[q].challengeId # r.challengeId
       /\ Receive(p, r)

NextAccounts ==
  \E p \in Procs :
    \/ AccountsArrive(p)
    \/ RegisterFinishSelect(p)
    \/ RegisterFinishDelete(p)
    \/ RegisterFinishVerify(p)
    \/ RegisterFinishListUsers(p)
    \/ RegisterFinishCreateUser(p)
    \/ RegisterFinishInsert(p)

SpecAccounts == InitAccounts /\ [][NextAccounts]_vars

PasskeyHandlers(p) ==
  \/ PasskeysGetUser(p)
  \/ PasskeysList(p)
  \/ PasskeysRemove(p)
  \/ PasskeysUpdate(p)

LoginStartHandlers(p) ==
  \/ LoginStartRateLimit(p)
  \/ LoginStartUsers(p)
  \/ LoginStartCreds(p)
  \/ LoginStartInsert(p)

LoginFinishHandlers(p) ==
  \/ LoginFinishSelect(p)
  \/ LoginFinishDelete(p)
  \/ LoginFinishCredential(p)
  \/ LoginFinishVerify(p)
  \/ LoginFinishUpdate(p)
  \/ LoginFinishLink(p)

\* credential management: the bearer token is none, alice's or bob's; the
\* body may name any account and any credential
PasskeyRequests(tokens, credentialIds) ==
  {[NoRequest EXCEPT !.endpoint = e, !.ip = "ip1", !.token = t,
                     !.userId = 1, !.credentialId = c,
                     !.authenticatorName = "phone"] :
     e \in {"/passkeys/remove", "/passkeys/update"}, t \in tokens,
     c \in credentialIds}
  \cup
  {[NoRequest EXCEPT !.endpoint = "/passkeys/list", !.ip = "ip1",
                     !.token = t, !.userId = 1] : t \in tokens}

\* two accounts, each with a passkey of its own
SeedUserB == [id |-> 2, email |-> "bob"]

SeedCredentialB ==
  [id |-> "c2", user_id |-> 2, webauthn_user_id |-> 1, counter |-> 0,
   authenticator_name |-> "none"]

InitPasskeys ==
  /\ now = 0
  /\ ticks = 0
  /\ nreq = 0
  /\ nextUser = 3
  /\ rateLimits = << >>
  /\ users = {SeedUser, SeedUserB}
  /\ credentials = {SeedCredential, SeedCredentialB}
  /\ challenges = SeedChallenges
  /\ nextId = 4
  /\ nextHandle = 2
  /\ auditLog = EmptyBag
  /\ pc = [p \in Procs |-> "idle"]
  /\ req = [p \in Procs |-> NoRequest]
  /\ loc = [p \in Procs |-> NoLocals]
  /\ result = [p \in Procs |-> NoResult]
  /\ observed = << >>
  /\ finished = {}
  /\ auditUp = TRUE
  /\ client = NoClient

\* credential management and begin-authentication side by side
PasskeysArrive(p) ==
  /\ nreq < MaxRequests
  /\ \E r \in PasskeyRequests({0, 1, 2}, {"c1", "c2", "c3"})
               \cup StartRequests({"ip1"}, {"alice", "carol"}) :
       r.endpoint # "/register/start" /\ Receive(p, r)

NextPasskeys ==
  \E p \in Procs :
    PasskeysArrive(p) \/ PasskeyHandlers(p) \/ LoginStartHandlers(p)

SpecPasskeys == InitPasskeys /\ [][NextPasskeys]_vars

\* logins while accounts are being deleted
OwnerArrives(p) ==
  /\ nreq < MaxRequests
  /\ \E r \in FinishRequests({"ip1"}, {"app"}, {"rp"}) :
       /\ r.endpoint = "/login/finish"
       /\ r.challengeId \in {2, 3}
       /\ Receive(p, r)

NextOwner ==
  \/ \E u \in {SeedUser, SeedUserB} : DeleteAccount(u)
  \/ \E p \in Procs : OwnerArrives(p) \/ LoginFinishHandlers(p)

SpecOwner == InitPasskeys /\ [][NextOwner]_vars

\* every endpoint, one invocation, while the audit function comes and goes
AuditArrives(p) ==
  /\ nreq < MaxRequests
  /\ \E r \in StartRequests({"ip1"}, {"alice"})
               \cup FinishRequests({"ip1"}, {"app"}, {"rp"})
               \cup PasskeyRequests({0, 1}, {"c1"}) :
       Receive(p, r)

NextAudit ==
  \/ AuditFlips
  \/ TickLifetime
  \/ AuditArrives(1)
  \/ StartHandlers(1)
  \/ FinishHandlers(1)
  \/ PasskeyHandlers(1)

SpecAudit == Init /\ [][NextAudit]_vars

\* store calls fail at any point of a ceremony
StoreArrives(p) ==
  /\ nreq < MaxRequests
  /\ \E r \in StartRequests({"ip1"}, {"alice"})
               \cup FinishRequests({"ip1"}, {"app"}, {"rp"}) :
       Receive(p, r)

NextStore ==
  \/ StoreArrives(1)
  \/ StartHandlers(1)
  \/ FinishHandlers(1)
  \/ StoreFails(1)

SpecStore == Init /\ [][NextStore]_vars

\* registrations begun under one relying-party id and finished under any
RpArrives(p) ==
  /\ nreq < MaxRequests
  /\ \E r \in {[q EXCEPT !.rpId = "rp"] : q \in StartRequests({"ip1"}, {"bob"})}
               \cup FinishRequests({"ip1"}, {"app"}, RpIds) :
       /\ r.endpoint \in {"/register/start", "/register/finish"}
       /\ Receive(p, r)

NextRp ==
  \E p \in Procs :
    \/ RpArrives(p)
    \/ RegisterStartRateLimit(p)
    \/ RegisterStartSelect(p)
    \/ RegisterStartInsert(p)
    \/ RegisterFinishSelect(p)
    \/ RegisterFinishDelete(p)
    \/ RegisterFinishVerify(p)
    \/ RegisterFinishListUsers(p)
    \/ RegisterFinishCreateUser(p)
    \/ RegisterFinishInsert(p)

SpecRp == Init /\ [][NextRp]_vars

\* a passkey is removed while it is being used to sign in
RevokeArrives(p) ==
  /\ nreq < MaxRequests
  /\ \E r \in FinishRequests({"ip1"}, {"app"}, {"rp"})
               \cup PasskeyRequests({1}, {"c1"}) :
       /\ \/ r.endpoint = "/login/finish" /\ r.challengeId \in {2, 3}
          \/ r.endpoint = "/passkeys/remove"
       /\ Receive(p, r)

NextRevoke ==
  \E p \in Procs :
    \/ RevokeArrives(p)
    \/ LoginFinishHandlers(p)
    \/ PasskeysGetUser(p)
    \/ PasskeysRemove(p)

SpecRevoke == InitPasskeys /\ [][NextRevoke]_vars

\* begin-calls, finish-calls, the clock and the periodic job
CleanupArrives(p) ==
  /\ nreq < MaxRequests
  /\ \E r \in StartRequests({"ip1"}, {"alice"})
               \cup FinishRequests({"ip1"}, {"app"}, {"rp"}) :
       /\ r.endpoint \in {"/register/start", "/login/finish"}
       /\ Receive(p, r)

NextCleanup ==
  \/ Cleanup
  \/ ClockRuns
  \/ CleanupArrives(1)
  \/ RegisterStartRateLimit(1)
  \/ RegisterStartSelect(1)
  \/ RegisterStartInsert(1)
  \/ LoginFinishHandlers(1)

\* time passes, and the job keeps being run
SpecCleanup ==
  Init /\ [][NextCleanup]_vars /\ WF_vars(Cleanup) /\ WF_vars(ClockRuns)

\* the client library on its own: any method, any options, any answer of
\* the edge function
ClientArrives ==
  \/ \E method \in {"register", "signIn"}, email \in EmailValues :
       ClientCall(method, email, Undefined, Undefined)
  \/ \E credentialId \in NameValues :
       ClientCall("removePasskey", Undefined, credentialId, Undefined)
  \/ \E credentialId \in NameValues, authenticatorName \in NameValues :
       ClientCall("updatePasskey", Undefined, credentialId,
                  authenticatorName)

NextClient ==
  \/ ClientArrives
  \/ ClientValidate
  \/ ClientSupported
  \/ ClientStart
  \/ ClientBrowser
  \/ ClientFinish
  \/ ClientRedeem
  \/ ClientManage
  \/ ClientDone

SpecClient == Init /\ [][NextClient]_vars

\* ---------------------------------------------------------------------
\* properties
\* ---------------------------------------------------------------------

FinishEndpoints == {"/register/finish", "/login/finish"}

StartEndpoints == {"/register/start", "/login/start"}

\* the kind of challenge an endpoint finishes
KindOf(endpoint) ==
  IF endpoint = "/register/finish" THEN "registration" ELSE "authentication"

\* the invocation returns its response in this step
Returns(p) == pc[p] # "done" /\ pc'[p] = "done"

\* the finish handler holds a challenge row and is past the delete
Won(p) ==
  pc[p] \in {"rf_verify", "rf_users", "rf_create", "rf_insert",
             "lf_verify", "lf_check", "lf_update", "lf_link"}

\* C1: once a finish-call that names a challenge id has returned, whatever
\* its outcome, the store holds no challenge row with that id.
C1_ChallengeGoneAfterFinish ==
  \A p \in Procs :
    (pc[p] = "done" /\ req[p].endpoint \in FinishEndpoints)
      => ~ \E c \in challenges : c.id = req[p].challengeId

\* a finish-call named a seeded challenge at the wrong endpoint and returned
C1_Witness ==
  \E p \in Procs :
    /\ pc[p] = "done"
    /\ req[p].endpoint = "/login/finish"
    /\ req[p].challengeId = 1
    /\ result[p].code = "CHALLENGE_MISMATCH"

\* C2: a finish-call that names an id for which a finish-call has already
\* returned never gets past the delete, answers CHALLENGE_MISMATCH, and
\* carries no token and no passkey.
C2_SecondFinishMismatch ==
  \A p \in Procs :
    loc[p].late =>
      /\ pc[p] \in {"rf_delete", "lf_delete", "done"}
      /\ pc[p] = "done" =>
            /\ result[p].code = "CHALLENGE_MISMATCH"
            /\ result[p].token = "none"
            /\ result[p].passkey = "none"

\* a second finish-call for a seeded challenge has returned
C2_Witness ==
  \E p \in Procs :
    /\ loc[p].late
    /\ pc[p] = "done"
    /\ req[p].challengeId = 2

\* C3: of the finish-calls that name one challenge id at most one obtains
\* the challenge and goes on to verification.
C3_AtMostOneWinner ==
  \A p, q \in Procs :
    (p # q /\ Won(p) /\ Won(q)) => loc[p].chal.id # loc[q].chal.id

\* C4: a finish-call succeeds only if in that call the challenge was found
\* with the endpoint's kind, had not expired and the response passed every
\* check; a response that fails a check ends the call with an error, no
\* token, and no write to credentials or accounts.
C4_SuccessOnlyIfAllChecksPass ==
  [][\A p \in Procs :
       /\ (Returns(p) /\ req[p].endpoint \in FinishEndpoints
              /\ result'[p].code = "OK")
            => /\ loc[p].chal # NoChallenge
               /\ loc[p].chal.id = req[p].challengeId
               /\ loc[p].chal.type = KindOf(req[p].endpoint)
               /\ ~(loc[p].chal.expires_at < loc[p].clock)
               /\ loc[p].verdict = "passed"
               /\ result'[p].token # "none"
       /\ (loc[p].verdict = "none"
              /\ loc'[p].verdict \in {"failed", "stale"})
            => /\ pc'[p] = "done"
               /\ result'[p].code = "VERIFICATION_FAILED"
       /\ (Returns(p) /\ req[p].endpoint \in FinishEndpoints
              /\ result'[p].code # "OK")
            => /\ result'[p].token = "none"
               /\ result'[p].passkey = "none"
               /\ loc[p].userId = 0
               /\ loc[p].newCounter = 0
               /\ credentials' = credentials
               /\ users' = users]_vars

\* a login was verified and answered with a token
C4_Witness ==
  \E p \in Procs :
    /\ pc[p] = "done"
    /\ req[p].endpoint = "/login/finish"
    /\ result[p].code = "OK"
    /\ result[p].token = "alice"

\* the counter the store holds for a credential
StoredCounter(credentialId) ==
  (CHOOSE c \in credentials : c.id = credentialId).counter

\* C5: a /login/finish response whose counter does not exceed the
\* credential's stored counter is never accepted and never written: the
\* verifier accepts, and the counter write stores, only a counter greater
\* than the one the store holds at that moment.
C5_StaleCounterRejected ==
  [][\A p \in Procs :
       /\ (pc[p] = "lf_check" /\ pc'[p] = "lf_update")
            => loc'[p].newCounter > StoredCounter(loc'[p].resp.id)
       /\ (pc[p] = "lf_update" /\ pc'[p] = "lf_link")
            => loc[p].newCounter > StoredCounter(loc[p].resp.id)]_vars

\* C6: the stored counter of a credential never decreases.
C6_CounterMonotonic ==
  [][\A c \in credentials : \A d \in credentials' :
       c.id = d.id => d.counter >= c.counter]_vars

\* C7: in every window the limiter lets through exactly the first K
\* requests and refuses the rest, and the window's count is the number of
\* requests booked for it.
C7_ExactlyCeilingPass ==
  /\ DOMAIN rateLimits =
       {k \in DOMAIN observed : k.identifier_type = "ip"}
  /\ \A k \in DOMAIN rateLimits :
       LET n == rateLimits[k]
           passes == IF n < RATE_LIMITS.ip.maxAttempts
                       THEN n ELSE RATE_LIMITS.ip.maxAttempts
       IN  /\ observed[k].passed = passes
           /\ observed[k].limited = n - passes

\* seven requests met one window while two invocations were in flight
C7_Witness ==
  \E k \in DOMAIN rateLimits :
    /\ rateLimits[k] > RATE_LIMITS.ip.maxAttempts
    /\ observed[k].limited > 0
    /\ \A p \in Procs : pc[p] = "done"

\* C8: a begin-call whose limiter check comes back blocked returns
\* RATE_LIMITED in that very step: no challenge row, no nonce or handle
\* drawn, no credential and no account written.
C8_BlockedShortCircuits ==
  [][\A p \in Procs :
       (pc[p] \in StartEndpoints /\ pc'[p] # pc[p]
          /\ rateLimits'[RateKey(req[p].ip, "ip", req[p].endpoint, now)]
                > RATE_LIMITS.ip.maxAttempts)
         => /\ pc'[p] = "done"
            /\ result'[p].code = "RATE_LIMITED"
            /\ UNCHANGED <<challenges, credentials, users, nextId,
                           nextHandle, auditLog>>]_vars

\* a begin-call was refused
C8_Witness ==
  \E p \in Procs :
    /\ pc[p] = "done"
    /\ req[p].endpoint = "/login/start"
    /\ result[p].code = "RATE_LIMITED"

\* C9: of the begin-calls that carry one email no more than ten pass in one
\* window, whatever addresses they come from: the eleventh is refused.
C9_EmailLimiterEnforced ==
  \A k \in DOMAIN observed :
    k.identifier_type = "email" =>
      observed[k].passed <= RATE_LIMITS.email.maxAttempts

\* C10: a finish-call has the limiter count it before it deletes a
\* challenge or verifies, and does not reach verification from an address
\* that is over its ceiling in the current window.
C10_FinishRateLimited ==
  \A p \in Procs :
    (req[p].endpoint \in FinishEndpoints /\ pc[p] \notin {"idle", "done"}
       /\ pc[p] \notin FinishEndpoints)
      => /\ \E k \in DOMAIN rateLimits :
              /\ k.identifier = req[p].ip
              /\ k.endpoint = req[p].endpoint
         /\ ~ \E k \in DOMAIN rateLimits :
              /\ k.identifier = req[p].ip
              /\ k.window_start = date_trunc_minute(now)
              /\ rateLimits[k] > RATE_LIMITS.ip.maxAttempts

\* the events of one type in the audit log
EventsOfType(log, event_type) ==
  {e \in BagToSet(log) : e.event_type = event_type}

\* the step appends exactly one audit event, and it is e
AppendsOnly(e) == auditLog' = auditLog (+) SetToBag({e})

\* the window row a begin-call of p is counted in
OwnWindow(p, k) ==
  /\ k.identifier = req[p].ip
  /\ k.identifier_type = "ip"
  /\ k.endpoint = req[p].endpoint
  /\ k.window_start = date_trunc_minute(now)

\* p makes its rate-limit check in this step
ChecksLimit(p) == pc[p] \in StartEndpoints /\ pc'[p] # pc[p]

\* C11: a request answered RATE_LIMITED has left a rate_limit_exceeded
\* event with its client address in the audit log.
C11_RateLimitAudited ==
  \A p \in Procs :
    (pc[p] = "done" /\ result[p].code = "RATE_LIMITED")
      => \E e \in EventsOfType(auditLog, "rate_limit_exceeded") :
           e.ip_address = req[p].ip

\* C12: a rate-limit check touches the one window row of its own address,
\* endpoint and minute and no other row, and whether it is refused depends
\* on that row's count alone.
C12_WindowsIndependent ==
  [][\A p \in Procs :
       ChecksLimit(p) =>
         /\ \A k \in DOMAIN rateLimits' :
              IF OwnWindow(p, k)
                THEN /\ rateLimits'[k] =
                          (IF k \in DOMAIN rateLimits
                             THEN rateLimits[k] ELSE 0) + 1
                     /\ (result'[p].code = "RATE_LIMITED")
                          <=> (rateLimits'[k] > RATE_LIMITS.ip.maxAttempts)
                ELSE k \in DOMAIN rateLimits
                       /\ rateLimits'[k] = rateLimits[k]
         /\ \E k \in DOMAIN rateLimits' : OwnWindow(p, k)]_vars

\* one address is over its ceiling at an endpoint while the other address
\* is served there in the same minute
C12_Witness ==
  /\ pc[1] = "done"
  /\ req[1].ip = "ip2"
  /\ result[1].code = "OK"
  /\ \E k \in DOMAIN rateLimits :
       /\ k.identifier = "ip1"
       /\ k.endpoint = req[1].endpoint
       /\ k.window_start = date_trunc_minute(now)
       /\ rateLimits[k] > RATE_LIMITS.ip.maxAttempts

\* C13: a window's count is the number of checks made for it, refused ones
\* included; no step lowers a count or removes a window row.
C13_CountIsAttempts ==
  [][/\ \A k \in DOMAIN rateLimits :
          k \in DOMAIN rateLimits' /\ rateLimits'[k] >= rateLimits[k]
     /\ \A k \in DOMAIN rateLimits' :
          /\ k \in DOMAIN observed'
          /\ rateLimits'[k] = observed'[k].passed + observed'[k].limited]_vars

\* a window has counted two refused checks on top of the ones let through
C13_Witness ==
  \E k \in DOMAIN rateLimits :
    /\ observed[k].limited >= 2
    /\ rateLimits[k] = observed[k].passed + 2

\* C14: a finish-call that finds its challenge expired returns
\* CHALLENGE_EXPIRED without verifying and appends exactly one
\* challenge_expired audit event, at either finish endpoint.
C14_ExpiredAudited ==
  [][\A p \in Procs :
       (pc[p] \in {"rf_verify", "lf_verify"} /\ pc'[p] # pc[p]
          /\ loc[p].chal.expires_at < now)
         => /\ pc'[p] = "done"
            /\ result'[p].code = "CHALLENGE_EXPIRED"
            /\ loc'[p].verdict = "none"
            /\ \E e \in EventsOfType(auditLog', "challenge_expired") :
                 AppendsOnly(e)]_vars

\* C15: a challenge row is created with an expiry exactly the lifetime
\* after the clock of its creation; the expiry test of a finish-call
\* answers CHALLENGE_EXPIRED only once the clock is past the expiry, and
\* past the expiry nothing is verified.
C15_FixedLifetime ==
  [][/\ \A c \in challenges' \ challenges :
          c.expires_at - now = CHALLENGE_TTL_MINUTES * UnitsPerMinute
     /\ \A p \in Procs :
          (pc[p] \in {"rf_verify", "lf_verify"} /\ pc'[p] # pc[p])
            => /\ (result'[p].code = "CHALLENGE_EXPIRED")
                    <=> (now > loc[p].chal.expires_at)
               /\ (now > loc[p].chal.expires_at)
                    => (pc'[p] = "done" /\ loc'[p].verdict = "none")]_vars

\* a challenge handed out by a begin-call was finished after its expiry
C15_Witness ==
  \E p \in Procs :
    /\ pc[p] = "done"
    /\ req[p].endpoint \in FinishEndpoints
    /\ req[p].challengeId >= 4
    /\ result[p].code = "CHALLENGE_EXPIRED"

\* C16: a finish-call that names a challenge of the other kind reads no
\* row, and a finish-call that read no row returns CHALLENGE_MISMATCH from
\* its delete step: nothing verified, no credential, no account, no token.
C16_KindNotReinterpreted ==
  [][\A p \in Procs :
       /\ (pc[p] \in FinishEndpoints /\ pc'[p] # pc[p]
              /\ \E c \in challenges :
                   c.id = req[p].challengeId /\ c.type # KindOf(pc[p]))
            => loc'[p].chal = NoChallenge
       /\ (pc[p] \in {"rf_delete", "lf_delete"} /\ pc'[p] # pc[p]
              /\ loc[p].chal = NoChallenge)
            => /\ pc'[p] = "done"
               /\ result'[p].code = "CHALLENGE_MISMATCH"
               /\ result'[p].token = "none"
               /\ result'[p].passkey = "none"
               /\ loc'[p].verdict = "none"
               /\ credentials' = credentials
               /\ users' = users]_vars

\* a pending authentication challenge was named at /register/finish
C16_Witness ==
  \E p \in Procs :
    /\ pc[p] = "done"
    /\ req[p].endpoint = "/register/finish"
    /\ req[p].challengeId = 2
    /\ ~ loc[p].late
    /\ result[p].code = "CHALLENGE_MISMATCH"

\* C17: no two accounts share an email, and a registration whose response
\* the verifier accepted ends in success, with the account of its email
\* created or reused.
C17_OneAccountPerEmail ==
  /\ \A u \in users : \A v \in users : u.email = v.email => u.id = v.id
  /\ \A p \in Procs :
       (pc[p] = "done" /\ req[p].endpoint = "/register/finish"
          /\ loc[p].verdict = "passed")
         => result[p].code = "OK"

\* C18: when /register/finish returns success, the store holds a
\* credential row with the verified credential id, owned by the account
\* resolved for the challenge's email and carrying the challenge's handle,
\* and the response names that credential.
C18_SuccessHasCredential ==
  [][\A p \in Procs :
       (Returns(p) /\ req[p].endpoint = "/register/finish"
          /\ result'[p].code = "OK")
         => /\ result'[p].passkey = loc[p].resp.id
            /\ \E c \in credentials' :
                 /\ c.id = loc[p].resp.id
                 /\ c.user_id = loc[p].userId
                 /\ c.webauthn_user_id = loc[p].chal.webauthn_user_id]_vars

\* the credential ids of the account an email maps to
CredentialsOfEmail(email) ==
  {c.id : c \in {d \in credentials :
                   \E u \in users : u.email = email /\ u.id = d.user_id}}

\* C19: the options /register/start returns carry as exclusion list
\* exactly the credential ids of the account the email maps to (empty when
\* there is no such account or it has no credentials).
C19_ExclusionList ==
  [][\A p \in Procs :
       (Returns(p) /\ req[p].endpoint = "/register/start"
          /\ result'[p].code = "OK")
         => result'[p].creds = CredentialsOfEmail(req[p].email)]_vars

\* C20: when the verifier rejects a /register/finish response the call
\* returns VERIFICATION_FAILED in that step, the challenge is gone,
\* exactly one registration_failed event with the challenge's email is
\* appended, and no account, credential or token comes of it.
C20_RegistrationFailure ==
  [][\A p \in Procs :
       (pc[p] = "rf_verify" /\ loc'[p].verdict = "failed")
         => /\ pc'[p] = "done"
            /\ result'[p].code = "VERIFICATION_FAILED"
            /\ result'[p].token = "none"
            /\ result'[p].passkey = "none"
            /\ ~ \E c \in challenges' : c.id = req[p].challengeId
            /\ AppendsOnly(AuditEvent("registration_failed",
                                       loc[p].chal.email, "none",
                                       req[p].ip))
            /\ credentials' = credentials
            /\ users' = users]_vars

\* a registration for bob was refused by the verifier and logged
C20_Witness ==
  \E p \in Procs :
    /\ pc[p] = "done"
    /\ req[p].endpoint = "/register/finish"
    /\ loc[p].verdict = "failed"
    /\ result[p].code = "VERIFICATION_FAILED"
    /\ \E e \in EventsOfType(auditLog, "registration_failed") :
         e.email = "bob"
    /\ users = {SeedUser}

\* C21: a /login/start whose email maps to no account, or to an account
\* without credentials, returns CREDENTIAL_NOT_FOUND at that lookup and
\* creates no challenge row; a call with an email reaches the challenge
\* insert only with a non-empty list of credentials.
C21_NoCredentialNoChallenge ==
  [][\A p \in Procs :
       /\ (pc[p] = "ls_users" /\ pc'[p] # pc[p]
              /\ ~ \E u \in users : u.email = req[p].email)
            => /\ pc'[p] = "done"
               /\ result'[p].code = "CREDENTIAL_NOT_FOUND"
               /\ challenges' = challenges
       /\ (pc[p] = "ls_creds" /\ pc'[p] # pc[p]
              /\ ~ \E c \in credentials : c.user_id = loc[p].userId)
            => /\ pc'[p] = "done"
               /\ result'[p].code = "CREDENTIAL_NOT_FOUND"
               /\ challenges' = challenges
       /\ (pc'[p] = "ls_insert" /\ req'[p].email # "none")
            => loc'[p].creds # {}]_vars

\* alice's account is there but has lost its only passkey
C21_Witness ==
  \E p \in Procs :
    /\ pc[p] = "done"
    /\ req[p].endpoint = "/login/start"
    /\ req[p].email = "alice"
    /\ result[p].code = "CREDENTIAL_NOT_FOUND"
    /\ SeedUser \in users
    /\ \A c \in challenges : c.id < 4

\* C22: a /login/start without an email that passes the limiter succeeds
\* with no allow-list and stores an authentication challenge with no
\* email; with an email, the allow-list read is exactly the credential ids
\* of that email's account and is what the response carries.
C22_AllowList ==
  [][\A p \in Procs :
       /\ (pc[p] = "/login/start" /\ pc'[p] # pc[p]
              /\ req[p].email = "none"
              /\ result'[p].code # "RATE_LIMITED")
            => pc'[p] = "ls_insert"
       /\ (pc[p] = "ls_creds" /\ pc'[p] = "ls_insert")
            => loc'[p].creds = CredentialsOfEmail(req[p].email)
       /\ (pc[p] = "ls_insert" /\ pc'[p] # pc[p])
            => /\ result'[p].code = "OK"
               /\ result'[p].hasList = (req[p].email # "none")
               /\ result'[p].creds = loc[p].creds
               /\ req[p].email = "none" => result'[p].creds = {}
               /\ \E c \in challenges' \ challenges :
                    /\ c.id = result'[p].challengeId
                    /\ c.type = "authentication"
                    /\ c.email = req[p].email]_vars

\* a login was begun without an email
C22_Witness ==
  \E p \in Procs :
    /\ pc[p] = "done"
    /\ req[p].endpoint = "/login/start"
    /\ req[p].email = "none"
    /\ result[p].code = "OK"
    /\ ~ result[p].hasList
    /\ \E c \in challenges : c.id = result[p].challengeId /\ c.email = "none"

\* C23: the token and the email a successful /login/finish returns are
\* not those of an account other than the owner of the verified
\* credential.
C23_TokenOfOwner ==
  [][\A p \in Procs :
       (Returns(p) /\ req[p].endpoint = "/login/finish"
          /\ result'[p].code = "OK")
         => \A u \in users :
              (u.email = result'[p].token \/ u.email = result'[p].email)
                => u.id = loc[p].cred.user_id]_vars

\* C24: a remove or update step leaves every credential row that is not
\* owned by the account of the bearer token as it is, and the account it
\* acts for is the one of the bearer token.
C24_OtherAccountsUntouched ==
  [][\A p \in Procs :
       (pc[p] \in {"pk_remove", "pk_update"} /\ pc'[p] # pc[p])
         => /\ loc[p].userId = req[p].token
            /\ \A c \in credentials :
                 c.user_id # req[p].token => c \in credentials'
            /\ \A c \in credentials' :
                 c.user_id # req[p].token => c \in credentials]_vars

\* alice asked for bob's passkey to be removed, and it is still there
C24_Witness ==
  \E p \in Procs :
    /\ pc[p] = "done"
    /\ req[p].endpoint = "/passkeys/remove"
    /\ req[p].token = 1
    /\ req[p].credentialId = "c2"
    /\ result[p].code # "UNAUTHORIZED"
    /\ SeedCredentialB \in credentials

\* C25: a remove or update whose credential id matches no credential of
\* the caller's account answers CREDENTIAL_NOT_FOUND.
C25_NoMatchNotFound ==
  [][\A p \in Procs :
       (pc[p] \in {"pk_remove", "pk_update"} /\ pc'[p] # pc[p]
          /\ ~ \E c \in credentials :
                 c.id = req[p].credentialId /\ c.user_id = loc[p].userId)
         => result'[p].code = "CREDENTIAL_NOT_FOUND"]_vars

\* C26: a credential-management call whose bearer token is not a valid
\* one ends UNAUTHORIZED in its first step, with the credentials and the
\* audit log untouched; a call that goes on acts for the account of its
\* token, whatever account the body names.
C26_UnauthorizedFirst ==
  [][\A p \in Procs :
       (pc[p] \in PasskeyEndpoints /\ pc'[p] # pc[p])
         => /\ UNCHANGED <<credentials, auditLog, challenges, users>>
            /\ IF \E u \in users : u.id = req[p].token
                 THEN /\ pc'[p] # "done"
                      /\ loc'[p].userId = req[p].token
                 ELSE /\ pc'[p] = "done"
                      /\ result'[p].code = "UNAUTHORIZED"]_vars

\* a removal without a token was refused although the body names alice
C26_Witness ==
  \E p \in Procs :
    /\ pc[p] = "done"
    /\ req[p].endpoint = "/passkeys/remove"
    /\ req[p].token = 0
    /\ req[p].userId = 1
    /\ req[p].credentialId = "c1"
    /\ result[p].code = "UNAUTHORIZED"
    /\ SeedCredential \in credentials

\* C27: /passkeys/list returns the ids of exactly the credential rows
\* owned by the account of the bearer token.
C27_ListOwnOnly ==
  [][\A p \in Procs :
       (Returns(p) /\ req[p].endpoint = "/passkeys/list"
          /\ result'[p].code = "OK")
         => result'[p].creds =
              {c.id : c \in {d \in credentials :
                               d.user_id = req[p].token}}]_vars

\* bob listed his passkeys while alice's was in the table
C27_Witness ==
  \E p \in Procs :
    /\ pc[p] = "done"
    /\ req[p].endpoint = "/passkeys/list"
    /\ req[p].token = 2
    /\ result[p].code = "OK"
    /\ result[p].creds = {"c2"}
    /\ SeedCredential \in credentials

\* C28: a finish-call that returns CHALLENGE_MISMATCH, CHALLENGE_EXPIRED,
\* CREDENTIAL_NOT_FOUND or VERIFICATION_FAILED appends an audit event in
\* the step that returns.
C28_FailuresAudited ==
  [][\A p \in Procs :
       (Returns(p) /\ req[p].endpoint \in FinishEndpoints
          /\ result'[p].code \in {"CHALLENGE_MISMATCH", "CHALLENGE_EXPIRED",
                                   "CREDENTIAL_NOT_FOUND",
                                   "VERIFICATION_FAILED"})
         => \E e \in BagToSet(auditLog') : AppendsOnly(e)]_vars

\* C29: when the verifier rejects a /login/finish response for a
\* challenge begun with an email, the authentication_failed event that is
\* appended carries that email and the credential id.
C29_FailureCarriesEmail ==
  [][\A p \in Procs :
       (pc[p] = "lf_check" /\ Returns(p)
          /\ result'[p].code = "VERIFICATION_FAILED"
          /\ loc[p].chal.email # "none")
         => AppendsOnly(AuditEvent("authentication_failed",
                                   loc[p].chal.email, loc[p].cred.id,
                                   req[p].ip))]_vars

\* the response code the outcome of the operation calls for where a
\* handler returns right after an audit call
CodeAfterAudit(p) ==
  IF pc[p] \in {"rs_insert", "ls_insert", "rf_insert", "lf_link",
                "pk_remove"}
    THEN "OK"
  ELSE IF pc[p] = "pk_update"
    THEN IF \E c \in credentials :
              c.id = req[p].credentialId /\ c.user_id = loc[p].userId
           THEN "OK" ELSE "CREDENTIAL_NOT_FOUND"
  ELSE IF pc[p] = "rf_verify"
    THEN IF loc[p].chal.expires_at < now THEN "CHALLENGE_EXPIRED"
                                         ELSE "VERIFICATION_FAILED"
  ELSE IF pc[p] \in {"rf_create", "lf_check"}
    THEN "VERIFICATION_FAILED"
  ELSE result'[p].code

\* C30: the response a handler returns after an audit call is the one the
\* outcome of the operation calls for whether or not the audit write got
\* through, a begun ceremony has its challenge row and a finished
\* registration its token either way, and a write that did not get
\* through leaves the audit log as it was.
C30_AuditFailureSwallowed ==
  [][\A p \in Procs :
       Returns(p) =>
         /\ result'[p].code = CodeAfterAudit(p)
         /\ pc[p] \in {"rs_insert", "ls_insert"} =>
              \E c \in challenges' : c.id = result'[p].challengeId
         /\ pc[p] \in {"rf_insert", "lf_link"} => result'[p].token # "none"
         /\ pc[p] = "pk_remove" =>
              ~ \E c \in credentials' :
                   c.id = req[p].credentialId /\ c.user_id = loc[p].userId
         /\ ~ auditUp => auditLog' = auditLog]_vars

\* a registration was begun and finished while no audit write got through
C30_Witness ==
  /\ pc[1] = "done"
  /\ req[1].endpoint = "/register/finish"
  /\ req[1].challengeId >= 4
  /\ result[1].code = "OK"
  /\ auditLog = EmptyBag
  /\ ~ auditUp

\* an email that is plainly not one: not a string, blank inside, not
\* exactly one "@", nothing before the "@", or no "." after it
BadEmail(email) ==
  \/ email.type # "string"
  \/ \E k \in 1..Len(email.chars) : email.chars[k] = " "
  \/ Cardinality({k \in 1..Len(email.chars) : email.chars[k] = "@"}) # 1
  \/ email.chars[1] = "@"
  \/ ~ \E k, m \in 1..Len(email.chars) :
         email.chars[k] = "@" /\ email.chars[m] = "." /\ k < m

Empty(value) == value.type = "string" /\ value.chars = << >>

\* C34: register() with an invalid email, signIn() with a supplied but
\* invalid email, removePasskey() with an empty credential id and
\* updatePasskey() with an empty credential id or an empty name return
\* INVALID_INPUT without a call of the edge function; signIn() without an
\* email never returns INVALID_INPUT.
C34_InvalidInputLocal ==
  client.pc = "returned" =>
    /\ ( \/ client.method = "register" /\ BadEmail(client.email)
         \/ /\ client.method = "signIn"
            /\ client.email.type # "undefined"
            /\ BadEmail(client.email)
         \/ client.method = "removePasskey" /\ Empty(client.credentialId)
         \/ /\ client.method = "updatePasskey"
            /\ Empty(client.credentialId) \/ Empty(client.authenticatorName) )
       => /\ client.code = "INVALID_INPUT"
          /\ ~ client.success
          /\ client.trace = << >>
    /\ (client.method = "signIn" /\ client.email.type = "undefined")
       => client.code # "INVALID_INPUT"

\* register() was called with an email without "@" and turned it down
C34_Witness ==
  /\ client.pc = "returned"
  /\ client.method = "register"
  /\ client.email = Str(<<"a", ".", "a">>)
  /\ client.code = "INVALID_INPUT"
  /\ client.trace = << >>

\* C35: register() returns success only with a session, established by
\* redeeming the token /register/finish returned.
C35_RegisterEstablishesSession ==
  (client.pc = "returned" /\ client.method = "register" /\ client.success)
    => /\ client.session
       /\ \E i \in 1..Len(client.trace) :
            client.trace[i].step = "verifyOtp" /\ client.trace[i].reply.success

C31_StoreErrorsSurface ==
  [][\A p \in Procs :
       StoreFails(p) => Returns(p) /\ result'[p].code = "UNKNOWN_ERROR"]_vars

\* C32: a finish-call succeeds only under the relying-party id that the
\* begin-call of its challenge was made under.
C32_RpIdBound ==
  [][\A p \in Procs :
       (Returns(p) /\ req[p].endpoint \in FinishEndpoints
          /\ result'[p].code = "OK")
         => \A q \in Procs :
              (pc[q] = "done" /\ req[q].endpoint \in StartEndpoints
                 /\ result[q].code = "OK"
                 /\ result[q].challengeId = req[p].challengeId)
                => req[q].rpId = req[p].rpId]_vars

\* C33: a credential id names at most one credential row, and a row that
\* is there before and after a step has the same owner.
C33_OneOwner ==
  [][/\ \A c, d \in credentials : c.id = d.id => c = d
     /\ \A c, d \in credentials' : c.id = d.id => c = d
     /\ \A c \in credentials, d \in credentials' :
          c.id = d.id => c.user_id = d.user_id]_vars

\* bob's registration came with the id of alice's passkey: bob has an
\* account, and the passkey is still alice's
C33_Witness ==
  \E p \in Procs :
    /\ pc[p] = "done"
    /\ req[p].endpoint = "/register/finish"
    /\ result[p].code = "OK"
    /\ result[p].token = "bob"
    /\ result[p].passkey = "none"
    /\ \E c \in credentials : c.id = "c1" /\ c.user_id = SeedUser.id
    /\ \A c \in credentials : c.id = "c1" => c.user_id = SeedUser.id

\* C37: a /login/finish does not return success for a credential for
\* which a /passkeys/remove of its owner has returned.
C37_NoTokenForRemoved ==
  [][\A p \in Procs :
       (Returns(p) /\ req[p].endpoint = "/login/finish"
          /\ result'[p].code = "OK")
         => ~ \E q \in Procs :
                /\ pc[q] = "done"
                /\ req[q].endpoint = "/passkeys/remove"
                /\ result[q].code = "OK"
                /\ req[q].credentialId = loc[p].cred.id
                /\ req[q].token = loc[p].cred.user_id]_vars

\* C38: a remove step that appends an audit event deletes the credential
\* row it names, and an update step that appends one sets the label of a
\* row of the caller.
C38_AuditOnlyOnEffect ==
  [][\A p \in Procs :
       /\ (pc[p] = "pk_remove" /\ pc'[p] # pc[p] /\ auditLog' # auditLog)
            => \E c \in credentials \ credentials' :
                 c.id = req[p].credentialId
       /\ (pc[p] = "pk_update" /\ pc'[p] # pc[p] /\ auditLog' # auditLog)
            => /\ \E c \in credentials :
                    c.id = req[p].credentialId /\ c.user_id = loc[p].userId
               /\ \A c \in credentials' :
                    c.id = req[p].credentialId
                      => c.authenticator_name = req[p].authenticatorName]_vars

\* C39: the responses of /login/start calls that found no account or no
\* credentials are all the same, code and message.
C39_SameAnswer ==
  \A p, q \in Procs :
    ( /\ pc[p] = "done" /\ req[p].endpoint = "/login/start"
      /\ pc[q] = "done" /\ req[q].endpoint = "/login/start"
      /\ result[p].code \notin {"OK", "RATE_LIMITED"}
      /\ result[q].code \notin {"OK", "RATE_LIMITED"} )
      => /\ result[p] = result[q]
         /\ result[p].code = "CREDENTIAL_NOT_FOUND"

\* one call for an email without an account, one for alice, who has an
\* account and no passkey left
C39_Witness ==
  \E p, q \in Procs :
    /\ pc[p] = "done" /\ req[p].endpoint = "/login/start"
    /\ pc[q] = "done" /\ req[q].endpoint = "/login/start"
    /\ req[p].email = "carol"
    /\ req[q].email = "alice"
    /\ SeedUser \in users
    /\ ~ \E u \in users : u.email = "carol"
    /\ result[p].code = "CREDENTIAL_NOT_FOUND"
    /\ result[q] = result[p]

====
